---- MODULE Spec2Model ----
(***************************************************************************)
(* A model of the data layer of the NBA scores dashboard                   *)
(* (src/data_manager.py, src/constants.py, src/app.py).                    *)
(*                                                                         *)
(* Python values are modelled as tagged records so that the dynamic        *)
(* typing of upstream JSON survives the translation: an int, a str (a      *)
(* sequence of one-character strings), None, or a dict (a function from    *)
(* keys to values).  A function that can raise returns a record            *)
(* [exc, val]: exc is the name of the exception class, "" when it          *)
(* returned normally.                                                      *)
(***************************************************************************)
EXTENDS Integers, Sequences, FiniteSets, TLC

VARIABLES
    now,            \* the clock, in seconds since the session started
    today,          \* datetime.now().date(), a day of January 2024
    cache,          \* the st.cache_data store of fetch_games_for_date, by date
    selected_date,  \* st.session_state.selected_date
    selected_teams, \* st.session_state.selected_teams
    refresh_counter,\* st.session_state.refresh_counter
    last_refresh,   \* st.session_state.last_refresh
    ret,            \* the list the last call of fetch_games_for_date returned
    calls,          \* the upstream queries that call issued, in order
    shown,          \* the st.error messages that call showed to the user
    outcome,        \* how that call went: served or computed, by which assembler
    made,           \* history: per date, the last call that ran the function body
    prev,           \* history: per date, the last call since the last refresh
    pending,        \* history: per date, what the last refresh found, until refetched
    status_arg,     \* SpecStatus: the game dict handed to parse_game_status
    status_out,     \* SpecStatus: what parse_game_status did with it
    view,           \* the pair get_games_with_filters returned last
    unit_arg,       \* SpecUnit: the function called and its arguments
    unit_out        \* SpecUnit: what the function returned

vars == <<now, today, cache, selected_date, selected_teams, refresh_counter,
          last_refresh, ret, calls, shown, outcome, made, prev, pending,
          status_arg, status_out, view, unit_arg, unit_out>>

----------------------------------------------------------------------------
(* Python values *)

I(n) == [t |-> "int", v |-> n]
S(s) == [t |-> "str", v |-> s]
None == [t |-> "none", v |-> 0]
NaN == [t |-> "nan", v |-> 0]
L(s) == [t |-> "list", v |-> s]
D(f) == [t |-> "dict", v |-> f]
EmptyDict == D(<<>>)

\* a key that the upstream payload does not carry
Absent == [t |-> "absent", v |-> 0]

\* a dict with the key k, or without it when the value is Absent
Field(k, x) == IF x = Absent THEN <<>> ELSE k :> x

\* the nba_api import at module load succeeded
NBA_API_AVAILABLE == TRUE

Ok(x) == [exc |-> "", val |-> x]
Raise(e) == [exc |-> e, val |-> None]

\* bool(x) for the value kinds of the model
Truthy(x) ==
    CASE x.t = "int" -> x.v # 0
      [] x.t = "str" -> x.v # <<>>
      [] x.t = "dict" -> DOMAIN x.v # {}
      [] x.t = "list" -> x.v # <<>>
      [] x.t = "nan" -> TRUE
      [] OTHER -> FALSE

\* dict.get(key, default)
Get(d, k, default) == IF k \in DOMAIN d THEN d[k] ELSE default

----------------------------------------------------------------------------
(* str helpers, computed as CPython computes them *)

Digits == <<"0", "1", "2", "3", "4", "5", "6", "7", "8", "9">>

RECURSIVE NatToStr(_)
NatToStr(n) ==
    IF n < 10 THEN <<Digits[n + 1]>>
    ELSE NatToStr(n \div 10) \o <<Digits[(n % 10) + 1]>>

\* str(n) / f"{n}" for an int
IntToStr(n) == IF n < 0 THEN <<"-">> \o NatToStr(0 - n) ELSE NatToStr(n)

\* f"{n:02d}" for 0 <= n
TwoDigits(n) == IF n < 10 THEN <<"0">> \o NatToStr(n) ELSE NatToStr(n)

\* str.replace(old, new): non-overlapping occurrences, left to right
RECURSIVE Replace(_, _, _)
Replace(s, old, new) ==
    IF Len(s) < Len(old) THEN s
    ELSE IF SubSeq(s, 1, Len(old)) = old
         THEN new \o Replace(SubSeq(s, Len(old) + 1, Len(s)), old, new)
         ELSE <<Head(s)>> \o Replace(Tail(s), old, new)

StartsWith(s, p) == Len(s) >= Len(p) /\ SubSeq(s, 1, Len(p)) = p

IsDigit(c) == \E i \in 1..10 : Digits[i] = c

DigitVal(c) == (CHOOSE i \in 1..10 : Digits[i] = c) - 1

RECURSIVE StrToNat(_)
StrToNat(s) ==
    IF s = <<>> THEN 0
    ELSE 10 * StrToNat(SubSeq(s, 1, Len(s) - 1)) + DigitVal(s[Len(s)])

AllDigits(s) == \A i \in 1..Len(s) : IsDigit(s[i])

----------------------------------------------------------------------------
(* parse_game_status *)

STR_FINAL == <<"F", "i", "n", "a", "l">>
STR_SCHEDULED == <<"S", "c", "h", "e", "d", "u", "l", "e", "d">>
STR_IN_PROGRESS == <<"I", "n", " ", "P", "r", "o", "g", "r", "e", "s", "s">>
STR_UNKNOWN == <<"U", "n", "k", "n", "o", "w", "n">>

\* datetime.fromisoformat on the shapes the model feeds it: the extended
\* form "YYYY-MM-DDTHH:MM:SS+00:00" parses, anything else is a ValueError.
IsoWellFormed(s) ==
    /\ Len(s) = 25
    /\ AllDigits(SubSeq(s, 1, 4)) /\ s[5] = "-"
    /\ AllDigits(SubSeq(s, 6, 7)) /\ s[8] = "-"
    /\ AllDigits(SubSeq(s, 9, 10)) /\ s[11] = "T"
    /\ AllDigits(SubSeq(s, 12, 13)) /\ s[14] = ":"
    /\ AllDigits(SubSeq(s, 15, 16)) /\ s[17] = ":"
    /\ AllDigits(SubSeq(s, 18, 19))
    /\ SubSeq(s, 20, 25) = <<"+", "0", "0", ":", "0", "0">>
    /\ StrToNat(SubSeq(s, 1, 4)) \in 1..9999
    /\ StrToNat(SubSeq(s, 6, 7)) \in 1..12
    /\ StrToNat(SubSeq(s, 9, 10)) \in 1..28
    /\ StrToNat(SubSeq(s, 12, 13)) \in 0..23
    /\ StrToNat(SubSeq(s, 15, 16)) \in 0..59
    /\ StrToNat(SubSeq(s, 18, 19)) \in 0..59

\* America/Chicago offset from UTC in minutes: local mean time before the
\* 1883 standardisation, CDT in April..October, CST otherwise (the inputs
\* of the model stay clear of the March and November transition days).
ChicagoOffset(year, month) ==
    IF year < 1883 THEN 0 - 351
    ELSE IF month \in 4..10 THEN 0 - 300 ELSE 0 - 360

\* local_time.strftime("%I:%M %p CT")
StrfTime(minutes) ==
    LET h == minutes \div 60
        m == minutes % 60
        h12 == IF h % 12 = 0 THEN 12 ELSE h % 12
    IN TwoDigits(h12) \o <<":">> \o TwoDigits(m) \o <<" ">>
         \o (IF h < 12 THEN <<"A", "M">> ELSE <<"P", "M">>) \o <<" ", "C", "T">>

\* the try block of the not-started branch, for a str argument
format_game_time(game_time_utc) ==
    LET iso == Replace(game_time_utc, <<"Z">>, <<"+", "0", "0", ":", "0", "0">>)
    IN IF ~IsoWellFormed(iso) THEN Raise("ValueError")
       ELSE LET year == StrToNat(SubSeq(iso, 1, 4))
                month == StrToNat(SubSeq(iso, 6, 7))
                day == StrToNat(SubSeq(iso, 9, 10))
                utc == 60 * StrToNat(SubSeq(iso, 12, 13))
                          + StrToNat(SubSeq(iso, 15, 16))
                local == utc + ChicagoOffset(year, month)
            IN IF year = 1 /\ month = 1 /\ day = 1 /\ local < 0
               THEN Raise("OverflowError")
               ELSE Ok(S(StrfTime(local % 1440)))

status_not_started(g) ==
    LET game_status_text == Get(g, "gameStatusText", S(<<>>))
        game_time_utc == Get(g, "gameTimeUTC", S(<<>>))
        fallback == IF Truthy(game_status_text) THEN Ok(game_status_text)
                    ELSE Ok(S(STR_SCHEDULED))
    IN IF ~Truthy(game_time_utc) THEN fallback
       ELSE IF game_time_utc.t # "str" THEN fallback   \* AttributeError, caught
       ELSE LET r == format_game_time(game_time_utc.v)
            IN IF r.exc = "" THEN r
               ELSE IF r.exc \in {"ValueError", "AttributeError"} THEN fallback
               ELSE r

\* format_period with the first overtime numbered like the later ones
format_period_ot1(period) ==
    IF period <= 4 THEN <<"Q">> \o IntToStr(period)
    ELSE <<"O", "T">> \o IntToStr(period - 4)

format_period(period) ==
    IF period <= 4 THEN <<"Q">> \o IntToStr(period)
    ELSE LET ot_num == period - 4
         IN IF ot_num > 1 THEN <<"O", "T">> \o IntToStr(ot_num) ELSE <<"O", "T">>

\* format_clock without the "0" in front of a leading colon
format_clock_nopad(game_clock) ==
    Replace(Replace(Replace(game_clock, <<"P", "T">>, <<>>), <<"M">>, <<":">>),
            <<"S">>, <<>>)

\* format_clock without the removal of the seconds marker
format_clock_noS(game_clock) ==
    LET clock == Replace(Replace(game_clock, <<"P", "T">>, <<>>), <<"M">>, <<":">>)
    IN IF StartsWith(clock, <<":">>) THEN <<"0">> \o clock ELSE clock

format_clock(game_clock) ==
    LET clock == Replace(Replace(Replace(game_clock, <<"P", "T">>, <<>>),
                                 <<"M">>, <<":">>), <<"S">>, <<>>)
    IN IF StartsWith(clock, <<":">>) THEN <<"0">> \o clock ELSE clock

status_in_progress(g) ==
    LET game_status_text == Get(g, "gameStatusText", S(<<>>))
        period == Get(g, "period", I(0))
        game_clock == Get(g, "gameClock", S(<<>>))
    IN IF Truthy(period) /\ Truthy(game_clock)
       THEN IF period.t # "int" THEN Raise("TypeError")
            ELSE IF game_clock.t # "str" THEN Raise("AttributeError")
            ELSE Ok(S(format_period(period.v) \o <<" ">> \o format_clock(game_clock.v)))
       ELSE IF Truthy(game_status_text) THEN Ok(game_status_text)
            ELSE Ok(S(STR_IN_PROGRESS))

\* status_final preferring the upstream status text, as the other branches do
status_final_text(g) ==
    LET game_status_text == Get(g, "gameStatusText", S(<<>>))
    IN IF Truthy(game_status_text) THEN Ok(game_status_text) ELSE Ok(S(STR_FINAL))

status_final(g) == Ok(S(STR_FINAL))

\* status_unknown without the upstream status text
status_unknown_literal(g) == Ok(S(STR_UNKNOWN))

status_unknown(g) ==
    LET game_status_text == Get(g, "gameStatusText", S(<<>>))
    IN IF Truthy(game_status_text) THEN Ok(game_status_text)
       ELSE Ok(S(STR_UNKNOWN))

parse_game_status(g) ==
    LET game_status == Get(g, "gameStatus", I(1))
    IN IF game_status = I(1) THEN status_not_started(g)
       ELSE IF game_status = I(2) THEN status_in_progress(g)
       ELSE IF game_status = I(3) THEN status_final(g)
       ELSE status_unknown(g)

----------------------------------------------------------------------------
(* Team directory: NBA_TEAMS (constants.py), NBA_API_TEAM_MAP, get_team_info *)

\* Text the program never takes apart (display names, logo URLs) is kept as
\* a sequence of one or two tokens instead of single characters.
ESPN_LOGO_BASE == <<"https://a.espncdn.com/i/teamlogos/nba/500">>

NBA_TEAMS ==
    (<<"A", "T", "L">> :> [name |-> <<"Atlanta Hawks">>,
        logo |-> ESPN_LOGO_BASE \o <<"/atl.png">>]) @@
    (<<"B", "O", "S">> :> [name |-> <<"Boston Celtics">>,
        logo |-> ESPN_LOGO_BASE \o <<"/bos.png">>]) @@
    (<<"B", "K", "N">> :> [name |-> <<"Brooklyn Nets">>,
        logo |-> ESPN_LOGO_BASE \o <<"/bkn.png">>]) @@
    (<<"C", "H", "A">> :> [name |-> <<"Charlotte Hornets">>,
        logo |-> ESPN_LOGO_BASE \o <<"/cha.png">>]) @@
    (<<"C", "H", "I">> :> [name |-> <<"Chicago Bulls">>,
        logo |-> ESPN_LOGO_BASE \o <<"/chi.png">>]) @@
    (<<"C", "L", "E">> :> [name |-> <<"Cleveland Cavaliers">>,
        logo |-> ESPN_LOGO_BASE \o <<"/cle.png">>]) @@
    (<<"D", "A", "L">> :> [name |-> <<"Dallas Mavericks">>,
        logo |-> ESPN_LOGO_BASE \o <<"/dal.png">>]) @@
    (<<"D", "E", "N">> :> [name |-> <<"Denver Nuggets">>,
        logo |-> ESPN_LOGO_BASE \o <<"/den.png">>]) @@
    (<<"D", "E", "T">> :> [name |-> <<"Detroit Pistons">>,
        logo |-> ESPN_LOGO_BASE \o <<"/det.png">>]) @@
    (<<"G", "S", "W">> :> [name |-> <<"Golden State Warriors">>,
        logo |-> ESPN_LOGO_BASE \o <<"/gs.png">>]) @@
    (<<"H", "O", "U">> :> [name |-> <<"Houston Rockets">>,
        logo |-> ESPN_LOGO_BASE \o <<"/hou.png">>]) @@
    (<<"I", "N", "D">> :> [name |-> <<"Indiana Pacers">>,
        logo |-> ESPN_LOGO_BASE \o <<"/ind.png">>]) @@
    (<<"L", "A", "C">> :> [name |-> <<"LA Clippers">>,
        logo |-> ESPN_LOGO_BASE \o <<"/lac.png">>]) @@
    (<<"L", "A", "L">> :> [name |-> <<"Los Angeles Lakers">>,
        logo |-> ESPN_LOGO_BASE \o <<"/lal.png">>]) @@
    (<<"M", "E", "M">> :> [name |-> <<"Memphis Grizzlies">>,
        logo |-> ESPN_LOGO_BASE \o <<"/mem.png">>]) @@
    (<<"M", "I", "A">> :> [name |-> <<"Miami Heat">>,
        logo |-> ESPN_LOGO_BASE \o <<"/mia.png">>]) @@
    (<<"M", "I", "L">> :> [name |-> <<"Milwaukee Bucks">>,
        logo |-> ESPN_LOGO_BASE \o <<"/mil.png">>]) @@
    (<<"M", "I", "N">> :> [name |-> <<"Minnesota Timberwolves">>,
        logo |-> ESPN_LOGO_BASE \o <<"/min.png">>]) @@
    (<<"N", "O", "P">> :> [name |-> <<"New Orleans Pelicans">>,
        logo |-> ESPN_LOGO_BASE \o <<"/no.png">>]) @@
    (<<"N", "Y", "K">> :> [name |-> <<"New York Knicks">>,
        logo |-> ESPN_LOGO_BASE \o <<"/ny.png">>]) @@
    (<<"O", "K", "C">> :> [name |-> <<"Oklahoma City Thunder">>,
        logo |-> ESPN_LOGO_BASE \o <<"/okc.png">>]) @@
    (<<"O", "R", "L">> :> [name |-> <<"Orlando Magic">>,
        logo |-> ESPN_LOGO_BASE \o <<"/orl.png">>]) @@
    (<<"P", "H", "I">> :> [name |-> <<"Philadelphia 76ers">>,
        logo |-> ESPN_LOGO_BASE \o <<"/phi.png">>]) @@
    (<<"P", "H", "X">> :> [name |-> <<"Phoenix Suns">>,
        logo |-> ESPN_LOGO_BASE \o <<"/phx.png">>]) @@
    (<<"P", "O", "R">> :> [name |-> <<"Portland Trail Blazers">>,
        logo |-> ESPN_LOGO_BASE \o <<"/por.png">>]) @@
    (<<"S", "A", "C">> :> [name |-> <<"Sacramento Kings">>,
        logo |-> ESPN_LOGO_BASE \o <<"/sac.png">>]) @@
    (<<"S", "A", "S">> :> [name |-> <<"San Antonio Spurs">>,
        logo |-> ESPN_LOGO_BASE \o <<"/sa.png">>]) @@
    (<<"T", "O", "R">> :> [name |-> <<"Toronto Raptors">>,
        logo |-> ESPN_LOGO_BASE \o <<"/tor.png">>]) @@
    (<<"U", "T", "A">> :> [name |-> <<"Utah Jazz">>,
        logo |-> ESPN_LOGO_BASE \o <<"/utah.png">>]) @@
    (<<"W", "A", "S">> :> [name |-> <<"Washington Wizards">>,
        logo |-> ESPN_LOGO_BASE \o <<"/wsh.png">>])

\* the alias table: every key maps to itself
NBA_API_TEAM_MAP == [k \in DOMAIN NBA_TEAMS |-> k]

\* get_team_info with an empty default name in NBA_TEAMS.get
team_info_unnamed(tricode, our_abbrev) ==
    IF our_abbrev.t = "str" /\ our_abbrev.v \in DOMAIN NBA_TEAMS
    THEN Ok([abbrev |-> our_abbrev,
             name |-> S(NBA_TEAMS[our_abbrev.v].name),
             logo |-> S(NBA_TEAMS[our_abbrev.v].logo)])
    ELSE Ok([abbrev |-> our_abbrev, name |-> S(<<>>), logo |-> S(<<>>)])

\* the dict get_team_info returns for a tricode mapped to our_abbrev
team_info(tricode, our_abbrev) ==
    IF our_abbrev.t = "str" /\ our_abbrev.v \in DOMAIN NBA_TEAMS
    THEN Ok([abbrev |-> our_abbrev,
             name |-> S(NBA_TEAMS[our_abbrev.v].name),
             logo |-> S(NBA_TEAMS[our_abbrev.v].logo)])
    ELSE Ok([abbrev |-> tricode, name |-> tricode, logo |-> S(<<>>)])

get_team_info(tricode) ==
    IF tricode.t \in {"dict", "list"} THEN Raise("TypeError")    \* unhashable key
    ELSE team_info(tricode,
                   IF tricode.t = "str" /\ tricode.v \in DOMAIN NBA_API_TEAM_MAP
                   THEN S(NBA_API_TEAM_MAP[tricode.v]) ELSE tricode)

----------------------------------------------------------------------------
(* Stat normalizer and the live box score *)

\* extract_team_stats_from_live with every value read as `statistics.get(k) or None`
extract_team_stats_truthy(team_data) ==
    IF team_data.t # "dict" THEN None
    ELSE LET statistics == Get(team_data.v, "statistics", EmptyDict)
             get(k) == IF Truthy(Get(statistics.v, k, None)) THEN Get(statistics.v, k, None)
                      ELSE None
         IN IF ~Truthy(statistics) THEN None
            ELSE IF statistics.t # "dict" THEN None
            ELSE D([fg_made |-> get("fieldGoalsMade"),
                    fg_attempted |-> get("fieldGoalsAttempted"),
                    fg3_made |-> get("threePointersMade"),
                    fg3_attempted |-> get("threePointersAttempted"),
                    ft_made |-> get("freeThrowsMade"),
                    ft_attempted |-> get("freeThrowsAttempted"),
                    ast |-> get("assists"),
                    reb |-> get("reboundsTotal"),
                    to |-> get("turnovers")])

extract_team_stats_from_live(team_data) ==
    IF team_data.t # "dict" THEN None                   \* AttributeError, caught
    ELSE LET statistics == Get(team_data.v, "statistics", EmptyDict)
         IN IF ~Truthy(statistics) THEN None
            ELSE IF statistics.t # "dict" THEN None     \* AttributeError, caught
            ELSE D([fg_made |-> Get(statistics.v, "fieldGoalsMade", None),
                    fg_attempted |-> Get(statistics.v, "fieldGoalsAttempted", None),
                    fg3_made |-> Get(statistics.v, "threePointersMade", None),
                    fg3_attempted |-> Get(statistics.v, "threePointersAttempted", None),
                    ft_made |-> Get(statistics.v, "freeThrowsMade", None),
                    ft_attempted |-> Get(statistics.v, "freeThrowsAttempted", None),
                    ast |-> Get(statistics.v, "assists", None),
                    reb |-> Get(statistics.v, "reboundsTotal", None),
                    to |-> Get(statistics.v, "turnovers", None)])

\* One upstream query: the endpoint and the argument it was given.
Query(endpoint, arg) == [endpoint |-> endpoint, arg |-> arg]

\* What an upstream endpoint answers for an argument: reply is the oracle of
\* the call (a function from arguments to either a raise or a payload).
Reply(reply, arg) == IF arg \in DOMAIN reply THEN reply[arg] ELSE Raise("HTTPError")

\* fetch_live_boxscore_stats, given what boxscore.BoxScore(game_id).get_dict()
\* does: the pair (home_stats, away_stats)
fetch_live_boxscore_stats(box) ==
    LET none2 == [home |-> None, away |-> None]
    IN IF ~NBA_API_AVAILABLE THEN none2
       ELSE IF box.exc # "" THEN none2
       ELSE IF box.val.t # "dict" THEN none2
       ELSE LET game == Get(box.val.v, "game", EmptyDict)
            IN IF game.t # "dict" THEN none2
               ELSE [home |-> extract_team_stats_from_live(Get(game.v, "homeTeam", EmptyDict)),
                     away |-> extract_team_stats_from_live(Get(game.v, "awayTeam", EmptyDict))]

----------------------------------------------------------------------------
(* Live assembler *)

\* Calendar dates are days of January 2024.
DateIso(d) == <<"2", "0", "2", "4", "-", "0", "1", "-">> \o TwoDigits(d)        \* date.isoformat()
DateMDY(d) == <<"0", "1", "/">> \o TwoDigits(d) \o <<"/", "2", "0", "2", "4">>  \* date.strftime("%m/%d/%Y")

\* str(x) for the values that reach an f-string
PyStr(x) ==
    CASE x.t = "str" -> x.v
      [] x.t = "int" -> IntToStr(x.v)
      [] x.t = "nan" -> <<"n", "a", "n">>
      [] OTHER -> <<"N", "o", "n", "e">>

Failed(e, queries) == [exc |-> e, game |-> None, calls |-> queries]

\* live_record with the box-score stats taken for both sides of a game asked
\* about
live_record_box_first(g, box, day, home_team_data, away_team_data, home_team_info, away_team_info, status) ==
    LET home_tricode == Get(home_team_data.v, "teamTricode", S(<<>>))
        away_tricode == Get(away_team_data.v, "teamTricode", S(<<>>))
        game_status_code == Get(g, "gameStatus", I(1))
        home_score == IF game_status_code = I(1) THEN I(0)
                      ELSE Get(home_team_data.v, "score", I(0))
        away_score == IF game_status_code = I(1) THEN I(0)
                      ELSE Get(away_team_data.v, "score", I(0))
        sb_home == extract_team_stats_from_live(home_team_data)
        sb_away == extract_team_stats_from_live(away_team_data)
        some_absent == sb_home = None \/ sb_away = None
        game_id == Get(g, "gameId", None)
        ask_box == some_absent /\ game_status_code.v >= 2 /\ Truthy(game_id)
        boxed == fetch_live_boxscore_stats(Reply(box, game_id))
        home_stats == IF ask_box THEN boxed.home ELSE sb_home
        away_stats == IF ask_box THEN boxed.away ELSE sb_away
        asked == IF ask_box THEN <<Query("live.boxscore", game_id)>> ELSE <<>>
    IN IF home_team_info.exc # "" THEN Failed(home_team_info.exc, <<>>)
       ELSE IF away_team_info.exc # "" THEN Failed(away_team_info.exc, <<>>)
       ELSE IF status.exc # "" THEN Failed(status.exc, <<>>)
       ELSE IF some_absent /\ game_status_code.t # "int"
            THEN Failed("TypeError", <<>>)              \* game_status_code >= 2
       ELSE [exc |-> "",
             game |-> [id |-> Get(g, "gameId",
                                  S(DateIso(day) \o <<"-">> \o PyStr(home_tricode)
                                      \o <<"-">> \o PyStr(away_tricode))),
                       date |-> day,
                       status |-> status.val,
                       is_scheduled |-> (game_status_code = I(1)),
                       home_team |-> [abbrev |-> home_team_info.val.abbrev,
                                      name |-> home_team_info.val.name,
                                      logo |-> home_team_info.val.logo,
                                      score |-> home_score,
                                      stats |-> home_stats],
                       away_team |-> [abbrev |-> away_team_info.val.abbrev,
                                      name |-> away_team_info.val.name,
                                      logo |-> away_team_info.val.logo,
                                      score |-> away_score,
                                      stats |-> away_stats]],
             calls |-> asked]

\* the body of the for loop of fetch_live_games for one entry of the
\* scoreboard; box is the oracle of the box-score endpoint
\* the rest of the loop body once the team infos and the status are known
live_record(g, box, day, home_team_data, away_team_data, home_team_info, away_team_info, status) ==
    LET home_tricode == Get(home_team_data.v, "teamTricode", S(<<>>))
        away_tricode == Get(away_team_data.v, "teamTricode", S(<<>>))
        game_status_code == Get(g, "gameStatus", I(1))
        home_score == IF game_status_code = I(1) THEN I(0)
                      ELSE Get(home_team_data.v, "score", I(0))
        away_score == IF game_status_code = I(1) THEN I(0)
                      ELSE Get(away_team_data.v, "score", I(0))
        sb_home == extract_team_stats_from_live(home_team_data)
        sb_away == extract_team_stats_from_live(away_team_data)
        some_absent == sb_home = None \/ sb_away = None
        game_id == Get(g, "gameId", None)
        ask_box == some_absent /\ game_status_code.v >= 2 /\ Truthy(game_id)
        boxed == fetch_live_boxscore_stats(Reply(box, game_id))
        home_stats == IF ask_box /\ sb_home = None THEN boxed.home ELSE sb_home
        away_stats == IF ask_box /\ sb_away = None THEN boxed.away ELSE sb_away
        asked == IF ask_box THEN <<Query("live.boxscore", game_id)>> ELSE <<>>
    IN IF home_team_info.exc # "" THEN Failed(home_team_info.exc, <<>>)
       ELSE IF away_team_info.exc # "" THEN Failed(away_team_info.exc, <<>>)
       ELSE IF status.exc # "" THEN Failed(status.exc, <<>>)
       ELSE IF some_absent /\ game_status_code.t # "int"
            THEN Failed("TypeError", <<>>)              \* game_status_code >= 2
       ELSE [exc |-> "",
             game |-> [id |-> Get(g, "gameId",
                                  S(DateIso(day) \o <<"-">> \o PyStr(home_tricode)
                                      \o <<"-">> \o PyStr(away_tricode))),
                       date |-> day,
                       status |-> status.val,
                       is_scheduled |-> (game_status_code = I(1)),
                       home_team |-> [abbrev |-> home_team_info.val.abbrev,
                                      name |-> home_team_info.val.name,
                                      logo |-> home_team_info.val.logo,
                                      score |-> home_score,
                                      stats |-> home_stats],
                       away_team |-> [abbrev |-> away_team_info.val.abbrev,
                                      name |-> away_team_info.val.name,
                                      logo |-> away_team_info.val.logo,
                                      score |-> away_score,
                                      stats |-> away_stats]],
             calls |-> asked]

live_game(game_data, box, day) ==
    IF game_data.t # "dict" THEN Failed("AttributeError", <<>>)
    ELSE
    LET g == game_data.v
        home_team_data == Get(g, "homeTeam", EmptyDict)
        away_team_data == Get(g, "awayTeam", EmptyDict)
    IN IF home_team_data.t # "dict" \/ away_team_data.t # "dict"
       THEN Failed("AttributeError", <<>>)
       ELSE live_record(g, box, day, home_team_data, away_team_data,
                        get_team_info(Get(home_team_data.v, "teamTricode", S(<<>>))),
                        get_team_info(Get(away_team_data.v, "teamTricode", S(<<>>))),
                        parse_game_status(g))

\* One more turn of an assembler's for loop: acc holds the games appended
\* and the queries issued so far, r is what the loop body did; an exception
\* abandons the list but not the queries already made.
Gathered(acc, r) ==
    IF r.exc # "" THEN [exc |-> r.exc, games |-> <<>>, calls |-> acc.calls \o r.calls]
    ELSE [exc |-> "", games |-> Append(acc.games, r.game),
          calls |-> acc.calls \o r.calls]

NothingYet == [exc |-> "", games |-> <<>>, calls |-> <<>>]

\* the for loop of fetch_live_games from entry i on
RECURSIVE live_loop(_, _, _, _, _)
live_loop(games_list, i, box, day, acc) ==
    IF i > Len(games_list) \/ acc.exc # "" THEN acc
    ELSE live_loop(games_list, i + 1, box, day,
                   Gathered(acc, live_game(games_list[i], box, day)))

\* the try block of fetch_live_games; board is what
\* scoreboard.ScoreBoard().get_dict() does
live_try(board, box, day) ==
    LET raised(e) == [exc |-> e, games |-> <<>>, calls |-> <<>>]
    IN IF board.exc # "" THEN raised(board.exc)
       ELSE IF board.val.t # "dict" THEN raised("AttributeError")
       ELSE LET sb == Get(board.val.v, "scoreboard", EmptyDict)
            IN IF sb.t # "dict" THEN raised("AttributeError")
               ELSE LET games_list == Get(sb.v, "games", L(<<>>))
                    IN IF ~Truthy(games_list) THEN raised("")
                       ELSE IF games_list.t # "list" THEN raised("TypeError")
                       ELSE live_loop(games_list.v, 1, box, day, NothingYet)

ERR_LIVE == <<"Error fetching NBA data: ">>
ERR_HISTORICAL == <<"Error fetching historical NBA data: ">>

\* the result of an assembler: the list it returns, the upstream queries it
\* issued, the st.error messages it emitted, and the exception that left it
Assembled(by, games, queries, errors, caught) ==
    [by |-> by, games |-> games, calls |-> queries, errors |-> errors,
     caught |-> caught, exc |-> ""]

\* an exception that no handler of the assembler takes
Propagated(by, queries, e) ==
    [by |-> by, games |-> <<>>, calls |-> queries, errors |-> <<>>, caught |-> "",
     exc |-> e]

\* "except Exception" takes every exception but those that derive from
\* BaseException only
IsException(e) == e \notin {"KeyboardInterrupt", "SystemExit", "GeneratorExit"}

\* the except handler of fetch_live_games without st.error
live_except_silent(r) ==
    LET queries == <<Query("live.scoreboard", None)>> \o r.calls
    IN IF r.exc = "" THEN Assembled("live", r.games, queries, <<>>, "")
       ELSE IF IsException(r.exc)
            THEN Assembled("live", <<>>, queries, <<>>, r.exc)
            ELSE Propagated("live", queries, r.exc)

\* what fetch_live_games makes of its try block: the return of the games,
\* or the except handler
live_except(r) ==
    LET queries == <<Query("live.scoreboard", None)>> \o r.calls
    IN IF r.exc = "" THEN Assembled("live", r.games, queries, <<>>, "")
       ELSE IF IsException(r.exc)
            THEN Assembled("live", <<>>, queries, <<ERR_LIVE \o <<r.exc>>>>, r.exc)
            ELSE Propagated("live", queries, r.exc)

fetch_live_games(board, box, day) ==
    IF ~NBA_API_AVAILABLE THEN Assembled("live", <<>>, <<>>, <<>>, "")
    ELSE live_except(live_try(board, box, day))

----------------------------------------------------------------------------
(* Data frames of the stats endpoints: the column names and the rows in    *)
(* upstream order, each row a function from the columns to values.        *)

DF(cols, rows) == [t |-> "df", cols |-> cols, v |-> rows]

\* a == b for two values (a NaN equals nothing, itself included)
PyEq(a, b) == a = b /\ a.t # "nan"

\* int(x or 0)
PyIntOrZero(x) ==
    IF ~Truthy(x) THEN Ok(I(0))
    ELSE CASE x.t = "int" -> Ok(x)
           [] x.t = "str" -> IF AllDigits(x.v) THEN Ok(I(StrToNat(x.v)))
                             ELSE Raise("ValueError")
           [] x.t = "nan" -> Raise("ValueError")
           [] OTHER -> Raise("TypeError")

\* the row indices a boolean mask keeps, in row order
SelectIdx(kept) ==
    [k \in 1..Cardinality(kept) |->
        CHOOSE i \in kept : Cardinality({j \in kept : j < i}) = k - 1]

\* Series.unique() keeping the repetitions
Unique_repeated(xs, seen) == xs

\* Series.unique(): the distinct values in order of first appearance
RECURSIVE Unique(_, _)
Unique(xs, seen) ==
    IF xs = <<>> THEN <<>>
    ELSE IF Head(xs) \in seen THEN Unique(Tail(xs), seen)
         ELSE <<Head(xs)>> \o Unique(Tail(xs), seen \cup {Head(xs)})

\* the last element of a sequence of indices, 0 when there is none
LastOf(idx) == IF idx = <<>> THEN 0 ELSE idx[Len(idx)]

----------------------------------------------------------------------------
(* Historical assembler *)

StatsOfRow(row) ==
    D([fg_made |-> Get(row, "FGM", None),
       fg_attempted |-> Get(row, "FGA", None),
       fg3_made |-> Get(row, "FG3M", None),
       fg3_attempted |-> Get(row, "FG3A", None),
       ft_made |-> Get(row, "FTM", None),
       ft_attempted |-> Get(row, "FTA", None),
       ast |-> Get(row, "AST", None),
       reb |-> Get(row, "REB", None),
       to |-> Get(row, "TO", None)])

\* fetch_historical_boxscore_stats reading the first dataframe (the player
\* rows) in place of the second
fetch_historical_boxscore_stats_players(box) ==
    IF box.exc # "" THEN <<>>
    ELSE LET rows == box.val.v[1].v
             ids == {Get(rows[i], "TEAM_ID", None) : i \in 1..Len(rows)}
         IN [id \in ids |->
                StatsOfRow(rows[CHOOSE i \in 1..Len(rows) :
                                    Get(rows[i], "TEAM_ID", None) = id])]

\* fetch_historical_boxscore_stats, given what
\* BoxScoreTraditionalV2(game_id).get_data_frames() does: the dict from
\* team id to stats (a later row of the same team replaces an earlier one)
fetch_historical_boxscore_stats(box) ==
    IF ~NBA_API_AVAILABLE THEN <<>>
    ELSE IF box.exc # "" THEN <<>>
    ELSE IF box.val.t # "list" THEN <<>>                \* TypeError, caught
    ELSE IF Len(box.val.v) < 2 THEN <<>>
    ELSE LET team_stats_df == box.val.v[2]
         IN IF team_stats_df.t # "df" THEN <<>>         \* AttributeError, caught
            ELSE LET rows == team_stats_df.v
                     ids == {Get(rows[i], "TEAM_ID", None) : i \in 1..Len(rows)}
                     last(id) == CHOOSE i \in 1..Len(rows) :
                                    /\ Get(rows[i], "TEAM_ID", None) = id
                                    /\ \A j \in (i + 1)..Len(rows) :
                                          Get(rows[j], "TEAM_ID", None) # id
                 IN [id \in ids |-> StatsOfRow(rows[last(id)])]

\* pair_rows with the fallback only: the first row is home, the second away
pair_rows_in_order(game_rows) == [exc |-> "", home |-> 1, away |-> 2]

\* home/away pairing of the rows of one game: the indices of the home row
\* and of the away row, or a TypeError when a matchup is not a str
pair_rows(game_rows) ==
    LET matchup(row) == Get(row, "MATCHUP", S(<<>>))
        is_away(row) == \E k \in 1..Len(matchup(row).v) : matchup(row).v[k] = "@"
        is_home(row) == ~is_away(row)
    IN IF \E i \in 1..Len(game_rows) : matchup(game_rows[i]).t # "str"
       THEN [exc |-> "TypeError", home |-> 0, away |-> 0]
       ELSE LET away == LastOf(SelectIdx({n \in 1..Len(game_rows) : is_away(game_rows[n])}))
                home == LastOf(SelectIdx({n \in 1..Len(game_rows) : is_home(game_rows[n])}))
            IN IF home = 0 \/ away = 0
               THEN [exc |-> "", home |-> 1, away |-> 2]
               ELSE [exc |-> "", home |-> home, away |-> away]

\* the body of the for loop of fetch_historical_games for one game id with
\* at least two rows; box is the oracle of the box-score endpoint
historical_record(game_id, date, home_row, away_row, home_team_info, away_team_info, home_score, away_score, boxscore_stats) ==
    LET home_team_id == Get(home_row, "TEAM_ID", None)
        away_team_id == Get(away_row, "TEAM_ID", None)
    IN IF home_team_info.exc # "" THEN Failed(home_team_info.exc, <<>>)
       ELSE IF away_team_info.exc # "" THEN Failed(away_team_info.exc, <<>>)
       ELSE IF home_score.exc # "" THEN Failed(home_score.exc, <<>>)
       ELSE IF away_score.exc # "" THEN Failed(away_score.exc, <<>>)
       ELSE [exc |-> "",
             game |-> [id |-> game_id,
                       date |-> date,
                       status |-> S(STR_FINAL),
                       is_scheduled |-> FALSE,
                       home_team |-> [abbrev |-> home_team_info.val.abbrev,
                                      name |-> home_team_info.val.name,
                                      logo |-> home_team_info.val.logo,
                                      score |-> home_score.val,
                                      stats |-> Get(boxscore_stats, home_team_id, None)],
                       away_team |-> [abbrev |-> away_team_info.val.abbrev,
                                      name |-> away_team_info.val.name,
                                      logo |-> away_team_info.val.logo,
                                      score |-> away_score.val,
                                      stats |-> Get(boxscore_stats, away_team_id, None)]],
             calls |-> <<Query("stats.boxscoretraditionalv2", game_id)>>]

historical_game(game_id, game_rows, box, date) ==
    LET pair == pair_rows(game_rows)
        home_row == game_rows[pair.home]
        away_row == game_rows[pair.away]
    IN IF pair.exc # "" THEN Failed(pair.exc, <<>>)
       ELSE historical_record(
                game_id, date, home_row, away_row,
                get_team_info(Get(home_row, "TEAM_ABBREVIATION", S(<<>>))),
                get_team_info(Get(away_row, "TEAM_ABBREVIATION", S(<<>>))),
                PyIntOrZero(Get(home_row, "PTS", I(0))),
                PyIntOrZero(Get(away_row, "PTS", I(0))),
                fetch_historical_boxscore_stats(Reply(box, game_id)))

\* the for loop of fetch_historical_games from game id i on
RECURSIVE historical_loop(_, _, _, _, _, _)
historical_loop(game_ids, i, rows, box, date, acc) ==
    IF i > Len(game_ids) \/ acc.exc # "" THEN acc
    ELSE LET same_id(row) == PyEq(row["GAME_ID"], game_ids[i])
             idx == SelectIdx({n \in 1..Len(rows) : same_id(rows[n])})
             game_rows == [k \in 1..Len(idx) |-> rows[idx[k]]]
         IN IF Len(game_rows) < 2
            THEN historical_loop(game_ids, i + 1, rows, box, date, acc)
            ELSE historical_loop(game_ids, i + 1, rows, box, date,
                                 Gathered(acc, historical_game(game_ids[i], game_rows,
                                                               box, date)))

\* the try block of fetch_historical_games; finder is what
\* LeagueGameFinder(...).get_data_frames() does
historical_try(finder, box, date) ==
    LET raised(e) == [exc |-> e, games |-> <<>>, calls |-> <<>>]
    IN IF finder.exc # "" THEN raised(finder.exc)
       ELSE IF finder.val.t # "list" THEN raised("TypeError")
       ELSE IF finder.val.v = <<>> THEN raised("IndexError")
       ELSE LET games_df == finder.val.v[1]
            IN IF games_df.t # "df" THEN raised("AttributeError")
               ELSE IF games_df.v = <<>> THEN raised("")
               ELSE IF "GAME_ID" \notin games_df.cols THEN raised("KeyError")
               ELSE LET ids == [k \in 1..Len(games_df.v) |-> games_df.v[k]["GAME_ID"]]
                    IN historical_loop(Unique(ids, {}), 1, games_df.v, box, date,
                                       NothingYet)

\* what fetch_historical_games makes of its try block
historical_except(r, date) ==
    LET queries == <<Query("stats.leaguegamefinder", S(DateMDY(date)))>> \o r.calls
    IN IF r.exc = "" THEN Assembled("historical", r.games, queries, <<>>, "")
       ELSE IF IsException(r.exc)
            THEN Assembled("historical", <<>>, queries,
                           <<ERR_HISTORICAL \o <<r.exc>>>>, r.exc)
            ELSE Propagated("historical", queries, r.exc)

fetch_historical_games(finder, box, date) ==
    IF ~NBA_API_AVAILABLE THEN Assembled("historical", <<>>, <<>>, <<>>, "")
    ELSE historical_except(historical_try(finder, box, date), date)

----------------------------------------------------------------------------
(* Future assembler *)

\* x or y
PyOr(x, y) == IF Truthy(x) THEN x ELSE y

\* s.split("/")[1] for a str that contains "/"
SplitSecond(s) ==
    LET first == CHOOSE i \in 1..Len(s) : s[i] = "/" /\ \A k \in 1..(i - 1) : s[k] # "/"
        rest == SubSeq(s, first + 1, Len(s))
        stop == IF \E i \in 1..Len(rest) : rest[i] = "/"
                THEN (CHOOSE i \in 1..Len(rest) :
                         rest[i] = "/" /\ \A k \in 1..(i - 1) : rest[k] # "/") - 1
                ELSE Len(rest)
    IN SubSeq(rest, 1, stop)

\* s[a:b] (0-based, end excluded) for 0 <= a <= b
Slice(s, a, b) ==
    SubSeq(s, a + 1, IF b < Len(s) THEN b ELSE Len(s))

\* the abbreviations the LineScore frame gives for the two team ids
line_score_abbrevs(row, line_score_df) ==
    LET home_team_id == Get(row, "HOME_TEAM_ID", None)
        away_team_id == Get(row, "VISITOR_TEAM_ID", None)
        game_id == Get(row, "GAME_ID", None)
        same_game(ls_row) == PyEq(ls_row["GAME_ID"], game_id)
        all_rows == line_score_df.v
        idx == IF "GAME_ID" \in line_score_df.cols THEN SelectIdx({n \in 1..Len(all_rows) : same_game(all_rows[n])})
               ELSE [k \in 1..Len(all_rows) |-> k]
        game_lines == [k \in 1..Len(idx) |-> all_rows[idx[k]]]
        is_home(ls_row) == PyEq(Get(ls_row, "TEAM_ID", None), home_team_id)
        is_away(ls_row) == ~is_home(ls_row)
                             /\ PyEq(Get(ls_row, "TEAM_ID", None), away_team_id)
        h == LastOf(SelectIdx({n \in 1..Len(game_lines) : is_home(game_lines[n])}))
        a == LastOf(SelectIdx({n \in 1..Len(game_lines) : is_away(game_lines[n])}))
    IN [home |-> IF h = 0 THEN S(<<>>)
                 ELSE Get(game_lines[h], "TEAM_ABBREVIATION", S(<<>>)),
        away |-> IF a = 0 THEN S(<<>>)
                 ELSE Get(game_lines[a], "TEAM_ABBREVIATION", S(<<>>))]

\* the fallback on the GAMECODE field, given the abbreviations found so far
gamecode_abbrevs(gamecode, found) ==
    IF Truthy(found.home) /\ Truthy(found.away) THEN [exc |-> ""] @@ found
    ELSE IF gamecode.t # "str" THEN [exc |-> "TypeError"] @@ found   \* "/" in gamecode
    ELSE IF (\E i \in 1..Len(gamecode.v) : gamecode.v[i] = "/") /\ Len(gamecode.v) >= 17
         THEN LET teams_part == SplitSecond(gamecode.v)
              IN IF Len(teams_part) >= 6
                 THEN [exc |-> "",
                       away |-> PyOr(found.away, S(Slice(teams_part, 0, 3))),
                       home |-> PyOr(found.home, S(Slice(teams_part, 3, 6)))]
                 ELSE [exc |-> ""] @@ found
         ELSE [exc |-> ""] @@ found

\* future_record with the status text taken as it comes, empty or not
future_record_text_only(row, date, abbrevs, home_team_info, away_team_info) ==
    LET game_status_text == Get(row, "GAME_STATUS_TEXT", S(STR_SCHEDULED))
        status == game_status_text
    IN IF home_team_info.exc # "" THEN Failed(home_team_info.exc, <<>>)
       ELSE IF away_team_info.exc # "" THEN Failed(away_team_info.exc, <<>>)
       ELSE [exc |-> "",
             game |-> [id |-> Get(row, "GAME_ID",
                                  S(DateIso(date) \o <<"-">> \o PyStr(abbrevs.away)
                                      \o <<"-">> \o PyStr(abbrevs.home))),
                       date |-> date,
                       status |-> status,
                       is_scheduled |-> TRUE,
                       home_team |-> [abbrev |-> home_team_info.val.abbrev,
                                      name |-> home_team_info.val.name,
                                      logo |-> home_team_info.val.logo,
                                      score |-> I(0),
                                      stats |-> None],
                       away_team |-> [abbrev |-> away_team_info.val.abbrev,
                                      name |-> away_team_info.val.name,
                                      logo |-> away_team_info.val.logo,
                                      score |-> I(0),
                                      stats |-> None]],
             calls |-> <<>>]

\* the rest of the loop body once the abbreviations and team infos are known
future_record(row, date, abbrevs, home_team_info, away_team_info) ==
    LET game_status_text == Get(row, "GAME_STATUS_TEXT", S(STR_SCHEDULED))
        status == IF Truthy(game_status_text) THEN game_status_text ELSE S(STR_SCHEDULED)
    IN IF home_team_info.exc # "" THEN Failed(home_team_info.exc, <<>>)
       ELSE IF away_team_info.exc # "" THEN Failed(away_team_info.exc, <<>>)
       ELSE [exc |-> "",
             game |-> [id |-> Get(row, "GAME_ID",
                                  S(DateIso(date) \o <<"-">> \o PyStr(abbrevs.away)
                                      \o <<"-">> \o PyStr(abbrevs.home))),
                       date |-> date,
                       status |-> status,
                       is_scheduled |-> TRUE,
                       home_team |-> [abbrev |-> home_team_info.val.abbrev,
                                      name |-> home_team_info.val.name,
                                      logo |-> home_team_info.val.logo,
                                      score |-> I(0),
                                      stats |-> None],
                       away_team |-> [abbrev |-> away_team_info.val.abbrev,
                                      name |-> away_team_info.val.name,
                                      logo |-> away_team_info.val.logo,
                                      score |-> I(0),
                                      stats |-> None]],
             calls |-> <<>>]

\* the loop body from the abbreviations on
future_named(row, date, abbrevs) ==
    IF abbrevs.exc # "" THEN Failed(abbrevs.exc, <<>>)
    ELSE future_record(row, date, abbrevs, get_team_info(abbrevs.home),
                       get_team_info(abbrevs.away))

\* the body of the for loop of fetch_future_games for one GameHeader row
future_game(row, dfs, date) ==
    IF Len(dfs) > 1 /\ dfs[2].t # "df" THEN Failed("AttributeError", <<>>)
    ELSE future_named(row, date,
                      gamecode_abbrevs(Get(row, "GAMECODE", S(<<>>)),
                                       IF Len(dfs) > 1 THEN line_score_abbrevs(row, dfs[2])
                                       ELSE [home |-> S(<<>>), away |-> S(<<>>)]))

\* the for loop of fetch_future_games from row i on
RECURSIVE future_loop(_, _, _, _, _)
future_loop(rows, i, dfs, date, acc) ==
    IF i > Len(rows) \/ acc.exc # "" THEN acc
    ELSE future_loop(rows, i + 1, dfs, date,
                     Gathered(acc, future_game(rows[i], dfs, date)))

\* the try block of fetch_future_games; sb is what
\* ScoreboardV2(game_date).get_data_frames() does
future_try(sb, date) ==
    LET raised(e) == [exc |-> e, games |-> <<>>]
    IN IF sb.exc # "" THEN raised(sb.exc)
       ELSE IF ~Truthy(sb.val) THEN raised("")
       ELSE IF sb.val.t # "list" THEN raised("TypeError")
       ELSE LET game_header_df == sb.val.v[1]
            IN IF game_header_df.t # "df" THEN raised("AttributeError")
               ELSE IF game_header_df.v = <<>> THEN raised("")
               ELSE future_loop(game_header_df.v, 1, sb.val.v, date, NothingYet)

\* the try block of fetch_future_games outside any handler
future_except_uncaught(r, date) ==
    LET queries == <<Query("stats.scoreboardv2", S(DateMDY(date)))>>
    IN IF r.exc = "" THEN Assembled("future", r.games, queries, <<>>, "")
       ELSE Propagated("future", queries, r.exc)

\* what fetch_future_games makes of its try block
future_except(r, date) ==
    LET queries == <<Query("stats.scoreboardv2", S(DateMDY(date)))>>
    IN IF r.exc = "" THEN Assembled("future", r.games, queries, <<>>, "")
       ELSE IF IsException(r.exc)
            THEN Assembled("future", <<>>, queries, <<>>, r.exc)
            ELSE Propagated("future", queries, r.exc)

fetch_future_games(sb, date) ==
    IF ~NBA_API_AVAILABLE THEN Assembled("future", <<>>, <<>>, <<>>, "")
    ELSE future_except(future_try(sb, date), date)

----------------------------------------------------------------------------
(* What the upstream provider can answer *)

CLOCK_FRACTION == S(<<"P", "T", "1", "1", "M", "3", "0", ".", "0", "0", "S">>)
CLOCK_SHORT == S(<<"P", "T", "0", "M", "5", "S">>)
CLOCK_NO_MINUTES == S(<<"P", "T", "M", "5", "S">>)

STATS_FULL ==
    D([fieldGoalsMade |-> I(40), fieldGoalsAttempted |-> I(85),
       threePointersMade |-> I(12), threePointersAttempted |-> I(30),
       freeThrowsMade |-> I(18), freeThrowsAttempted |-> I(22),
       assists |-> I(25), reboundsTotal |-> I(44), turnovers |-> I(13)])

\* a payload that is present and carries zeros
STATS_ZERO == D([fieldGoalsMade |-> I(0), fieldGoalsAttempted |-> I(0)])

TeamBlock(tricode, score, statistics) ==
    D(Field("teamTricode", tricode) @@ Field("score", score)
        @@ Field("statistics", statistics))

LiveGame(game_id, code, text, period, clock, time, home, away) ==
    D(Field("gameId", game_id) @@ Field("gameStatus", code)
        @@ Field("gameStatusText", text) @@ Field("period", period)
        @@ Field("gameClock", clock) @@ Field("gameTimeUTC", time)
        @@ Field("homeTeam", home) @@ Field("awayTeam", away))

LAL == S(<<"L", "A", "L">>)
BOS == S(<<"B", "O", "S">>)
MIA == S(<<"M", "I", "A">>)
TIPOFF == S(<<"2", "0", "2", "4", "-", "0", "1", "-", "1", "6", "T", "0", "0", ":", "3", "0", ":", "0", "0", "Z">>)

\* not started, but the team blocks carry a score and a statistics payload
LG_SCHEDULED_STATS ==
    LiveGame(S(<<"G", "1">>), I(1), S(<<"7", ":", "3", "0", " ", "p", "m", " ", "E", "T">>), I(0), Absent, TIPOFF,
             TeamBlock(LAL, I(12), STATS_ZERO), TeamBlock(BOS, I(9), Absent))

LG_LIVE_NO_STATS ==
    LiveGame(S(<<"G", "2">>), I(2), S(<<"Q", "2", " ", "0", ":", "0", "5">>), I(2), CLOCK_SHORT, TIPOFF,
             TeamBlock(LAL, I(55), Absent), TeamBlock(BOS, I(50), Absent))

LG_FINAL_STATS ==
    LiveGame(S(<<"G", "3">>), I(3), S(<<"F", "i", "n", "a", "l">>), I(4), S(<<>>), TIPOFF,
             TeamBlock(MIA, I(101), STATS_FULL), TeamBlock(S(<<"Z", "Z", "Z">>), I(99), STATS_FULL))

\* in progress, the period arrives as a string
LG_BAD_PERIOD ==
    LiveGame(S(<<"G", "3">>), I(2), S(<<>>), S(<<"2">>), CLOCK_SHORT, Absent,
             TeamBlock(MIA, I(10), Absent), TeamBlock(BOS, I(8), Absent))

Board(games) == Ok(D("scoreboard" :> D("games" :> L(games))))

DOWN == Raise("ConnectionError")

LiveBoards ==
    {DOWN, Board(<<>>), Board(<<LG_SCHEDULED_STATS>>),
     Board(<<LG_LIVE_NO_STATS, LG_FINAL_STATS>>),
     Board(<<LG_LIVE_NO_STATS, LG_BAD_PERIOD>>)}

LiveBox(home, away) == Ok(D("game" :> D("homeTeam" :> home @@ "awayTeam" :> away)))

LiveBoxReplies ==
    {DOWN,
     LiveBox(TeamBlock(LAL, I(55), STATS_FULL), TeamBlock(BOS, I(50), Absent))}

\* the box-score endpoint answers every game id alike
LiveBoxOracles == {[id \in {S(<<"G", "2">>), S(<<"G", "3">>)} |-> reply] : reply \in LiveBoxReplies}

FINDER_COLS == {"GAME_ID", "TEAM_ID", "TEAM_ABBREVIATION", "MATCHUP", "PTS"}

FinderRow(game_id, team_id, abbrev, matchup, pts) ==
    [GAME_ID |-> game_id, TEAM_ID |-> team_id, TEAM_ABBREVIATION |-> abbrev,
     MATCHUP |-> matchup, PTS |-> pts]

Frames(cols, rows) == Ok(L(<<DF(cols, rows)>>))

FinderFrames ==
    {DOWN, Frames(FINDER_COLS, <<>>),
     Frames(FINDER_COLS,
            <<FinderRow(S(<<"H", "1">>), I(10), LAL, S(<<"L", "A", "L", " ", "v", "s", ".", " ", "B", "O", "S">>), I(110)),
              FinderRow(S(<<"H", "1">>), I(20), BOS, S(<<"B", "O", "S", " ", "@", " ", "L", "A", "L">>), I(105))>>),
     Frames(FINDER_COLS,
            <<FinderRow(S(<<"H", "1">>), I(10), LAL, S(<<"L", "A", "L", " ", "v", "s", ".", " ", "B", "O", "S">>), I(110)),
              FinderRow(S(<<"H", "1">>), I(20), BOS, S(<<"B", "O", "S", " ", "@", " ", "L", "A", "L">>), I(105)),
              FinderRow(S(<<"H", "2">>), I(30), MIA, S(<<"M", "I", "A", " ", "v", "s", ".", " ", "N", "Y", "K">>), NaN),
              FinderRow(S(<<"H", "2">>), I(40), S(<<"N", "Y", "K">>), S(<<"N", "Y", "K", " ", "@", " ", "M", "I", "A">>), I(90))>>)}

BOX_COLS == {"TEAM_ID", "FGM", "FGA", "FG3M", "FG3A", "FTM", "FTA", "AST", "REB", "TO"}

BoxRow(team_id, fgm) ==
    [TEAM_ID |-> team_id, FGM |-> I(fgm), FGA |-> I(80), FG3M |-> I(10),
     FG3A |-> I(28), FTM |-> I(15), FTA |-> I(20), AST |-> I(24), REB |-> I(41),
     TO |-> I(11)]

HistBox(rows) == Ok(L(<<DF({"PLAYER_ID"}, <<>>), DF(BOX_COLS, rows)>>))

HistBoxReplies == {DOWN, HistBox(<<BoxRow(I(10), 41)>>)}

HistBoxOracles == {[id \in {S(<<"H", "1">>), S(<<"H", "2">>)} |-> reply] : reply \in HistBoxReplies}

HEADER_COLS == {"GAME_ID", "HOME_TEAM_ID", "VISITOR_TEAM_ID", "GAME_STATUS_ID",
                "GAME_STATUS_TEXT", "GAMECODE"}
LINE_COLS == {"GAME_ID", "TEAM_ID", "TEAM_ABBREVIATION"}

HeaderRow(game_id, home_id, visitor_id, text, gamecode) ==
    [GAME_ID |-> game_id, HOME_TEAM_ID |-> home_id, VISITOR_TEAM_ID |-> visitor_id,
     GAME_STATUS_ID |-> I(1), GAME_STATUS_TEXT |-> text, GAMECODE |-> gamecode]

LineRow(game_id, team_id, abbrev) ==
    [GAME_ID |-> game_id, TEAM_ID |-> team_id, TEAM_ABBREVIATION |-> abbrev]

GAMECODE_STANDARD == S(<<"2", "0", "2", "4", "0", "1", "1", "6", "/", "B", "O", "S", "L", "A", "L">>)

ScheduleFrames ==
    {DOWN, Ok(L(<<DF(HEADER_COLS, <<>>)>>)),
     Ok(L(<<DF(HEADER_COLS,
               <<HeaderRow(S(<<"F", "1">>), I(10), I(20), S(<<"7", ":", "3", "0", " ", "p", "m", " ", "E", "T">>), GAMECODE_STANDARD),
                 HeaderRow(S(<<"F", "2">>), I(30), I(40), S(<<>>), GAMECODE_STANDARD)>>),
            DF(LINE_COLS,
               <<LineRow(S(<<"F", "1">>), I(20), BOS), LineRow(S(<<"F", "1">>), I(10), LAL),
                 LineRow(S(<<"F", "2">>), I(30), MIA)>>)>>)),
     Ok(L(<<DF(HEADER_COLS,
               <<HeaderRow(S(<<"F", "1">>), I(10), I(20), S(<<"7", ":", "3", "0", " ", "p", "m", " ", "E", "T">>), None)>>)>>))}

\* One answer of the provider for every endpoint, as seen by one fetch.
NO_BOX == [id \in {} |-> DOWN]

Upstream(board, box, finder, hbox, sb) ==
    [board |-> board, box |-> box, finder |-> finder, hbox |-> hbox, sb |-> sb]

Upstreams ==
    {Upstream(b, x, DOWN, NO_BOX, DOWN) : b \in LiveBoards, x \in LiveBoxOracles}
    \cup {Upstream(DOWN, NO_BOX, f, x, DOWN) : f \in FinderFrames, x \in HistBoxOracles}
    \cup {Upstream(DOWN, NO_BOX, DOWN, NO_BOX, s) : s \in ScheduleFrames}

----------------------------------------------------------------------------
(* Date-routed fetch orchestrator and its cache *)

\* ttl=600
CACHE_TTL_long == 10 * 60

CACHE_TTL == 60

\* the body of fetch_games_for_date with the else branch taken from today on
assemble_live_ahead(date, day, up) ==
    IF date >= day THEN fetch_live_games(up.board, up.box, day)
    ELSE fetch_historical_games(up.finder, up.hbox, date)

\* the body of fetch_games_for_date
assemble(date, day, up) ==
    IF date = day THEN fetch_live_games(up.board, up.box, day)
    ELSE IF date < day THEN fetch_historical_games(up.finder, up.hbox, date)
    ELSE fetch_future_games(up.sb, date)

NoEntry == [present |-> FALSE, value |-> <<>>, stamp |-> 0, msgs |-> <<>>]

\* the entry st.cache_data keeps for one argument: the returned value, the
\* time it was stored and the st elements recorded for replay
Entry(value, stamp, msgs) ==
    [present |-> TRUE, value |-> value, stamp |-> stamp, msgs |-> msgs]

\* a function without the st.cache_data decorator
CacheFresh_never(entry, clock) == FALSE

\* an entry is served while less than ttl seconds old
CacheFresh(entry, clock) == entry.present /\ clock - entry.stamp < CACHE_TTL

----------------------------------------------------------------------------
(* SpecStatus: parse_game_status applied to one upstream game dict *)

MaxPeriod == 7


StatusCodes == {Absent, I(0), I(1), I(2), I(3), I(4), S(<<"3">>)}
StatusTexts == {Absent, None, S(<<>>), S(<<"H", "a", "l", "f", "t", "i", "m", "e">>)}
Periods == {Absent, None, S(<<"2">>)} \cup {I(n) : n \in 0..MaxPeriod}
Clocks == {Absent, S(<<>>), CLOCK_FRACTION, CLOCK_SHORT, CLOCK_NO_MINUTES,
           S(<<"5", ":", "0", "0">>), I(5)}
GameTimes == {Absent, S(<<>>), S(<<"T", "B", "D">>), I(7),
              S(<<"2", "0", "2", "4", "-", "0", "1", "-", "1", "6", "T", "0", "0", ":", "3", "0", ":", "0", "0", "Z">>),
              S(<<"2", "0", "2", "4", "-", "0", "7", "-", "0", "4", "T", "1", "7", ":", "0", "5", ":", "0", "0", "Z">>),
              S(<<"0", "0", "0", "1", "-", "0", "1", "-", "0", "1", "T", "0", "0", ":", "3", "0", ":", "0", "0", "Z">>)}

StatusInputs ==
    { Field("gameStatus", c) @@ Field("gameStatusText", x) @@ Field("period", p)
        @@ Field("gameClock", k) @@ Field("gameTimeUTC", u) :
      c \in StatusCodes, x \in StatusTexts, p \in Periods, k \in Clocks,
      u \in GameTimes }

NotCalled == [called |-> FALSE, exc |-> "", val |-> None]

InitStatus ==
    /\ status_arg \in StatusInputs
    /\ status_out = NotCalled
    /\ now = 0 /\ today = 0 /\ cache = <<>>
    /\ selected_date = 0 /\ selected_teams = <<>>
    /\ refresh_counter = 0 /\ last_refresh = 0
    /\ ret = <<>> /\ calls = <<>> /\ shown = <<>> /\ outcome = <<>>
    /\ made = <<>> /\ prev = <<>> /\ pending = <<>>
    /\ view = <<>> /\ unit_arg = <<>> /\ unit_out = <<>>

ParseGameStatus ==
    /\ ~status_out.called
    /\ LET r == parse_game_status(status_arg)
       IN status_out' = [called |-> TRUE, exc |-> r.exc, val |-> r.val]
    /\ UNCHANGED <<status_arg, now, today, cache, selected_date, selected_teams,
                   refresh_counter, last_refresh, ret, calls, shown, outcome,
                   made, prev, pending, view, unit_arg, unit_out>>

NextStatus == ParseGameStatus

SpecStatus == InitStatus /\ [][NextStatus]_vars

----------------------------------------------------------------------------
(* Team filter *)

\* name in selected_teams
NameIn(name, teams) ==
    \E k \in 1..Len(teams) : PyEq(teams[k], name)

\* filter_games_by_teams with the home side tested only
filter_home_only(games, teams) ==
    LET keep(game) == NameIn(game.home_team.name, teams)
    IN IF teams = <<>> THEN games ELSE SelectSeq(games, keep)

\* the for loop with one append for the home side and one for the away side
RECURSIVE filter_loop_per_side(_, _, _, _)
filter_loop_per_side(games, i, teams, filtered) ==
    IF i > Len(games) THEN filtered
    ELSE filter_loop_per_side(
             games, i + 1, teams,
             filtered
               \o (IF NameIn(games[i].home_team.name, teams)
                   THEN <<games[i]>> ELSE <<>>)
               \o (IF NameIn(games[i].away_team.name, teams)
                   THEN <<games[i]>> ELSE <<>>))

filter_per_side(games, teams) ==
    IF teams = <<>> THEN games
    ELSE filter_loop_per_side(games, 1, teams, <<>>)

\* the for loop of filter_games_by_teams from game i on
RECURSIVE filter_loop(_, _, _, _)
filter_loop(games, i, teams, filtered) ==
    IF i > Len(games) THEN filtered
    ELSE filter_loop(games, i + 1, teams,
                     IF NameIn(games[i].home_team.name, teams)
                        \/ NameIn(games[i].away_team.name, teams)
                     THEN Append(filtered, games[i]) ELSE filtered)

filter_games_by_teams(games, teams) ==
    IF teams = <<>> THEN games
    ELSE filter_loop(games, 1, teams, <<>>)

----------------------------------------------------------------------------

(* SpecUnit: one call of one function of the data layer *)

\* the codes handed to get_team_info: every code of the table, the upstream
\* spelling "GS", unknown codes, the empty default and a missing code
TeamCodes ==
    {S(k) : k \in DOMAIN NBA_TEAMS}
    \cup {S(<<"G", "S">>), S(<<"Z", "Z", "Z">>), S(<<"l", "a", "l">>), S(<<>>), None}

\* the team blocks handed to extract_team_stats_from_live: no block, a block
\* of the wrong type, and blocks without, with an empty, with a malformed
\* and with a filled statistics payload
StatBlocks ==
    {None, L(<<>>)}
    \cup {TeamBlock(LAL, I(7), x) :
             x \in {Absent, None, EmptyDict, I(0), I(5), S(<<"a">>), L(<<I(1)>>),
                    STATS_ZERO, STATS_FULL,
                    D([fieldGoalsMade |-> I(3), assists |-> I(0), points |-> I(9)])}}

MaxGames == 3

\* a game record as the assemblers build it, for two team codes
GameOf(id, home, away) ==
    [id |-> S(id), date |-> 15, status |-> S(STR_FINAL), is_scheduled |-> FALSE,
     home_team |-> get_team_info(home).val @@ [score |-> I(101), stats |-> None],
     away_team |-> get_team_info(away).val @@ [score |-> I(99), stats |-> None]]

\* the lists of at most MaxGames games out of three, repetitions included
GameLists ==
    LET games == {GameOf(<<"A">>, LAL, BOS), GameOf(<<"B">>, MIA, S(<<"N", "Y", "K">>)),
                  GameOf(<<"C">>, BOS, S(<<"Z", "Z", "Z">>))}
    IN UNION {[1..n -> games] : n \in 0..MaxGames}

\* values of st.session_state.selected_teams
TeamName(code) == S(NBA_TEAMS[code].name)

TeamChoices ==
    {<<>>, <<TeamName(<<"L", "A", "L">>)>>, <<TeamName(<<"M", "I", "A">>)>>,
     <<TeamName(<<"B", "O", "S">>), TeamName(<<"L", "A", "L">>)>>, <<TeamName(<<"D", "E", "N">>)>>,
     <<S(<<"Z", "Z", "Z">>), TeamName(<<"N", "Y", "K">>)>>}

\* GAMECODE values: the standard form, the standard form with a
\* two-character suffix, the date part alone, and none
GameCodes ==
    {GAMECODE_STANDARD, S(<<"2", "0", "2", "4", "0", "1", "1", "6", "/", "B", "O", "S", "L", "A", "L", "0", "0">>), S(<<"2", "0", "2", "4", "0", "1", "1", "6">>), None}

\* LineScore frames for the game F1 of teams 10 (home) and 20 (visitor)
LineScores ==
    [absent |-> <<>>,
     empty |-> <<DF(LINE_COLS, <<>>)>>,
     other |-> <<DF(LINE_COLS, <<LineRow(S(<<"F", "2">>), I(10), MIA)>>)>>,
     home |-> <<DF(LINE_COLS, <<LineRow(S(<<"F", "1">>), I(10), LAL)>>)>>,
     both |-> <<DF(LINE_COLS, <<LineRow(S(<<"F", "1">>), I(20), BOS),
                                LineRow(S(<<"F", "1">>), I(10), LAL)>>)>>]

MaxHeaders == 2

\* the GAME_STATUS_TEXT values of the GameHeader rows, in row order
ScheduleTexts ==
    UNION {[1..n -> {S(<<"7", ":", "3", "0", " ", "p", "m", " ", "E", "T">>), S(<<"P", "P", "D">>), S(<<>>), None}] : n \in 1..MaxHeaders}

\* what ScoreboardV2 answers: one GameHeader row per status text, each with
\* the given GAMECODE, and the LineScore frame
Schedule(gamecode, lines, texts) ==
    Ok(L(<<DF(HEADER_COLS,
              [k \in 1..Len(texts) |->
                  HeaderRow(S(<<"F">> \o NatToStr(k)), I(10), I(20), texts[k], gamecode)])>>
         \o LineScores[lines]))

\* box-score statistics that differ from those of the scoreboard
STATS_BOX == D([fieldGoalsMade |-> I(41), fieldGoalsAttempted |-> I(86)])

\* one scoreboard entry by what matters to the box-score query: the status
\* code, the statistics of each side and the game id
LiveSpecs ==
    [code : {1, 2, 3}, home : {Absent, STATS_ZERO, STATS_FULL},
     away : {Absent, STATS_FULL}, id : {"given", "empty", "absent"}]

\* the scoreboard entry at position n of the games list
LiveGameOf(spec, n) ==
    LiveGame(CASE spec.id = "given" -> S(<<"G">> \o NatToStr(n))
               [] spec.id = "empty" -> S(<<>>)
               [] OTHER -> Absent,
             I(spec.code), S(<<"Q", "2", " ", "0", ":", "0", "5">>), I(2), CLOCK_SHORT, TIPOFF,
             TeamBlock(LAL, I(55), spec.home), TeamBlock(BOS, I(50), spec.away))

\* the games lists: every single entry, and the pairs of three entries
LiveLists ==
    LET paired == {[code |-> 2, home |-> Absent, away |-> Absent, id |-> "given"],
                   [code |-> 3, home |-> STATS_FULL, away |-> STATS_FULL, id |-> "given"],
                   [code |-> 1, home |-> Absent, away |-> Absent, id |-> "given"]}
    IN {<<spec>> : spec \in LiveSpecs} \cup {<<a, b>> : a \in paired, b \in paired}

\* what the box-score endpoint does for a game id
LiveBoxAnswers ==
    {DOWN,
     LiveBox(TeamBlock(LAL, I(55), STATS_BOX), TeamBlock(BOS, I(50), STATS_BOX)),
     LiveBox(TeamBlock(LAL, I(55), STATS_BOX), TeamBlock(BOS, I(50), Absent))}

MaxRows == 4

\* the row LeagueGameFinder returns at position k for a game: each position
\* has its own team, and away tells whether the matchup carries the "@"
FinderRowOf(spec, k) ==
    LET abbrev == <<LAL, BOS, MIA, S(<<"N", "Y", "K">>), S(<<"D", "E", "N">>), S(<<"P", "H", "X">>)>>
    IN FinderRow(S(spec.game), I(10 * k), abbrev[k],
                 IF spec.away THEN S(<<"A", "A", "A", " ", "@", " ", "H", "H", "H">>) ELSE S(<<"H", "H", "H", " ", "v", "s", ".", " ", "A", "A", "A">>),
                 I(100 + k))

\* the frames of at most MaxRows rows over two game ids
FinderLists ==
    UNION {[1..n -> [game : {<<"H", "1">>, <<"H", "2">>}, away : BOOLEAN]] : n \in 0..MaxRows}

\* what the box-score endpoint does per game id: it fails, it answers with
\* a row for every team, or with rows for the teams 10 and 30 only
HistBoxAnswers ==
    LET full == HistBox([k \in 1..MaxRows |-> BoxRow(I(10 * k), 40 + k)])
        lacking == HistBox(<<BoxRow(I(10), 41), BoxRow(I(30), 43)>>)
        ids == {S(<<"H", "1">>), S(<<"H", "2">>)}
    IN {[id \in ids |-> DOWN], [id \in ids |-> full], [id \in ids |-> lacking],
        [id \in ids |-> IF id = S(<<"H", "1">>) THEN DOWN ELSE full]}

UnitInputs ==
    {[fn |-> "get_team_info", x |-> c] : c \in TeamCodes}
    \cup {[fn |-> "extract_team_stats_from_live", x |-> b] : b \in StatBlocks}
    \cup {[fn |-> "fetch_future_games",
           x |-> [gamecode |-> c, lines |-> l, texts |-> t]] :
             c \in GameCodes, l \in DOMAIN LineScores, t \in ScheduleTexts}
    \cup {[fn |-> "fetch_historical_games", x |-> [rows |-> r, oracle |-> b]] :
             r \in FinderLists, b \in HistBoxAnswers}
    \cup {[fn |-> "fetch_live_games", x |-> [games |-> g, box |-> b]] :
             g \in LiveLists, b \in LiveBoxAnswers}
    \cup {[fn |-> "filter_games_by_teams", x |-> [games |-> g, selected_teams |-> t]] :
             g \in GameLists, t \in TeamChoices}

NoOutput == [n |-> 0, val |-> <<>>, first |-> <<>>]

InitUnit ==
    /\ unit_arg \in UnitInputs
    /\ unit_out = NoOutput
    /\ status_arg = <<>> /\ status_out = NotCalled
    /\ now = 0 /\ today = 0 /\ cache = <<>>
    /\ selected_date = 0 /\ selected_teams = <<>>
    /\ refresh_counter = 0 /\ last_refresh = 0
    /\ ret = <<>> /\ calls = <<>> /\ shown = <<>> /\ outcome = <<>>
    /\ made = <<>> /\ prev = <<>> /\ pending = <<>> /\ view = <<>>

\* the function fn is called with the arguments drawn and returns val
Returns(fn, val) ==
    /\ unit_arg.fn = fn
    /\ unit_out.n = 0
    /\ unit_out' = [n |-> 1, val |-> val, first |-> val]
    /\ UNCHANGED <<unit_arg, status_arg, status_out, now, today, cache,
                   selected_date, selected_teams, refresh_counter, last_refresh,
                   ret, calls, shown, outcome, made, prev, pending, view>>

GetTeamInfo == Returns("get_team_info", get_team_info(unit_arg.x))

ExtractTeamStatsFromLive ==
    Returns("extract_team_stats_from_live", extract_team_stats_from_live(unit_arg.x))

FilterGamesByTeams ==
    Returns("filter_games_by_teams",
            filter_games_by_teams(unit_arg.x.games, unit_arg.x.selected_teams))

\* filter_games_by_teams called on what it returned, with the same teams
FilterGamesByTeamsAgain ==
    /\ unit_arg.fn = "filter_games_by_teams"
    /\ unit_out.n = 1
    /\ unit_out' = [unit_out EXCEPT
                      !.n = 2,
                      !.val = filter_games_by_teams(unit_out.val,
                                                    unit_arg.x.selected_teams)]
    /\ UNCHANGED <<unit_arg, status_arg, status_out, now, today, cache,
                   selected_date, selected_teams, refresh_counter, last_refresh,
                   ret, calls, shown, outcome, made, prev, pending, view>>

\* fetch_future_games for 16 January 2024
FetchFutureGames ==
    Returns("fetch_future_games",
            fetch_future_games(Schedule(unit_arg.x.gamecode, unit_arg.x.lines,
                                        unit_arg.x.texts), 16))

\* fetch_live_games on 15 January 2024
FetchLiveGames ==
    Returns("fetch_live_games",
            fetch_live_games(
                Board([n \in 1..Len(unit_arg.x.games) |->
                          LiveGameOf(unit_arg.x.games[n], n)]),
                [id \in {S(<<"G", "1">>), S(<<"G", "2">>)} |-> unit_arg.x.box],
                15))

\* fetch_historical_games for 14 January 2024
FetchHistoricalGames ==
    Returns("fetch_historical_games",
            fetch_historical_games(
                Frames(FINDER_COLS, [k \in 1..Len(unit_arg.x.rows) |->
                                        FinderRowOf(unit_arg.x.rows[k], k)]),
                unit_arg.x.oracle, 14))

NextUnit ==
    \/ FetchHistoricalGames
    \/ FetchLiveGames
    \/ FetchFutureGames
    \/ GetTeamInfo
    \/ ExtractTeamStatsFromLive
    \/ FilterGamesByTeams
    \/ FilterGamesByTeamsAgain

SpecUnit == InitUnit /\ [][NextUnit]_vars

----------------------------------------------------------------------------

(* Spec: the dashboard session around fetch_games_for_date *)

\* The session starts on 15 January 2024; the dates that get fetched are
\* that day and the day after it.  The clock advances in steps
\* of TickSeconds up to MaxTime, and midnight passes at most MaxMidnights
\* times while the session is watched.
Today0 == 15
TickSeconds == 30
MaxTime == 90
MaxMidnights == 1
MaxRefresh == 1

Dates == {Today0, Today0 + 1}

\* What is observed of the last operation: for a call of
\* fetch_games_for_date its argument, whether the cache answered it, the
\* age of the entry the cache held for the date (-1: none), what the last
\* refresh had found for the date if this is the first call since, the
\* assembler that ran, and the exception it caught or let through.
Idle == [op |-> "idle", date |-> 0, hit |-> FALSE, age |-> -1, refreshed |-> "no",
         by |-> "", caught |-> "", raised |-> ""]

Found(date) == [Idle EXCEPT !.op = "fetch", !.date = date,
                            !.age = IF cache[date].present
                                    THEN now - cache[date].stamp ELSE -1,
                            !.refreshed = pending[date]]

\* a call that ran the function body: when, what it returned, the assembler
\* that ran and the exception it caught
NoCall == [called |-> FALSE, date |-> 0, at |-> 0, value |-> <<>>, by |-> "",
           caught |-> ""]
Call(date, at, value, by, caught) ==
    [called |-> TRUE, date |-> date, at |-> at, value |-> value, by |-> by,
     caught |-> caught]

\* initialize_session_state
Init ==
    /\ now = 0
    /\ today = Today0
    /\ cache = [d \in Dates |-> NoEntry]
    /\ selected_date = Today0
    /\ selected_teams = <<>>
    /\ refresh_counter = 0
    /\ last_refresh = 0
    /\ ret = <<>>
    /\ calls = <<>>
    /\ shown = <<>>
    /\ outcome = Idle
    /\ made = [d \in Dates |-> NoCall]
    /\ prev = [d \in Dates |-> NoCall]
    /\ pending = [d \in Dates |-> "no"]
    /\ status_arg = <<>>
    /\ status_out = NotCalled
    /\ view = <<>>
    /\ unit_arg = <<>>
    /\ unit_out = <<>>

\* a call of fetch_games_for_date answered by st.cache_data: the stored
\* value is returned and the recorded st elements are replayed
Served(date) ==
    /\ ret' = cache[date].value
    /\ calls' = <<>>
    /\ shown' = cache[date].msgs
    /\ outcome' = [Found(date) EXCEPT !.hit = TRUE]
    /\ prev' = [prev EXCEPT ![date] = Call(date, now, cache[date].value,
                                           made[date].by, made[date].caught)]
    /\ pending' = [pending EXCEPT ![date] = "no"]
    /\ UNCHANGED <<cache, made>>

\* Computed with the result of a caught failure left out of the cache
Computed_unless_failed(date, r) ==
    /\ ret' = r.games
    /\ calls' = r.calls
    /\ shown' = r.errors
    /\ outcome' = [Found(date) EXCEPT !.by = r.by, !.caught = r.caught,
                                       !.raised = r.exc]
    /\ cache' = IF r.exc = "" /\ r.caught = "" THEN [cache EXCEPT ![date] = Entry(r.games, now, r.errors)]
                ELSE cache
    /\ made' = IF r.exc = ""
               THEN [made EXCEPT ![date] = Call(date, now, r.games, r.by, r.caught)]
               ELSE made
    /\ prev' = IF r.exc = ""
               THEN [prev EXCEPT ![date] = Call(date, now, r.games, r.by, r.caught)]
               ELSE prev
    /\ pending' = [pending EXCEPT ![date] = "no"]

\* a call of fetch_games_for_date that runs the function body with result r
Computed(date, r) ==
    /\ ret' = r.games
    /\ calls' = r.calls
    /\ shown' = r.errors
    /\ outcome' = [Found(date) EXCEPT !.by = r.by, !.caught = r.caught,
                                       !.raised = r.exc]
    /\ cache' = IF r.exc = "" THEN [cache EXCEPT ![date] = Entry(r.games, now, r.errors)]
                ELSE cache
    /\ made' = IF r.exc = ""
               THEN [made EXCEPT ![date] = Call(date, now, r.games, r.by, r.caught)]
               ELSE made
    /\ prev' = IF r.exc = ""
               THEN [prev EXCEPT ![date] = Call(date, now, r.games, r.by, r.caught)]
               ELSE prev
    /\ pending' = [pending EXCEPT ![date] = "no"]

\* fetch_games_for_date behind st.cache_data(ttl=60)
CachedFetch(date) ==
    IF CacheFresh(cache[date], now)
    THEN Served(date)
    ELSE \E up \in Upstreams : Computed(date, assemble(date, today, up))

FetchGamesForDate(date) ==
    /\ CachedFetch(date)
    /\ UNCHANGED <<now, today, selected_date, selected_teams, refresh_counter,
                   last_refresh, status_arg, status_out, view, unit_arg, unit_out>>

\* trigger_refresh without the call of fetch_games_for_date.clear()
cleared_kept(c) == c

\* fetch_games_for_date.clear()
cleared(c) == [d \in DOMAIN c |-> NoEntry]

TriggerRefresh ==
    /\ refresh_counter < MaxRefresh
    /\ refresh_counter' = refresh_counter + 1
    /\ last_refresh' = now
    /\ cache' = cleared(cache)
    /\ made' = [d \in Dates |-> NoCall]
    /\ prev' = [d \in Dates |-> NoCall]
    /\ pending' = [d \in Dates |-> IF CacheFresh(cache[d], now) THEN "fresh"
                                    ELSE "vacant"]
    /\ ret' = <<>> /\ calls' = <<>> /\ shown' = <<>>
    /\ outcome' = [Idle EXCEPT !.op = "trigger_refresh"]
    /\ UNCHANGED <<now, today, selected_date, selected_teams, status_arg, status_out,
                   view, unit_arg, unit_out>>

\* TickSeconds pass between two operations, possibly across midnight
Tick ==
    /\ now + TickSeconds <= MaxTime
    /\ now' = now + TickSeconds
    /\ \E midnight \in BOOLEAN :
          /\ midnight => today < Today0 + MaxMidnights
          /\ today' = IF midnight THEN today + 1 ELSE today
    /\ ret' = <<>> /\ calls' = <<>> /\ shown' = <<>>
    /\ outcome' = Idle
    /\ UNCHANGED <<cache, made, prev, pending, selected_date, selected_teams,
                   refresh_counter, last_refresh, status_arg, status_out,
                   view, unit_arg, unit_out>>

Next ==
    \/ \E date \in Dates : FetchGamesForDate(date)
    \/ TriggerRefresh
    \/ Tick

Spec == Init /\ [][Next]_vars

----------------------------------------------------------------------------

(* SpecView: the page run around get_games_with_filters *)

\* get_games_with_filters returning the length of the filtered list
get_games_with_filters_shown(all_games, teams) ==
    [filtered |-> filter_games_by_teams(all_games, teams),
     total |-> Len(filter_games_by_teams(all_games, teams))]

\* the tuple get_games_with_filters returns once fetch_games_for_date has
\* returned all_games
get_games_with_filters(all_games, teams) ==
    [filtered |-> filter_games_by_teams(all_games, teams),
     total |-> Len(all_games)]

GetGamesWithFilters ==
    /\ CachedFetch(selected_date)
    /\ view' = IF outcome'.raised = ""
               THEN get_games_with_filters(ret', selected_teams)
               ELSE <<>>      \* raised with fetch_games_for_date
    /\ UNCHANGED <<now, today, selected_date, selected_teams, refresh_counter,
                   last_refresh, status_arg, status_out, unit_arg, unit_out>>

\* the team multiselect of the sidebar changes the selection
SelectTeams(teams) ==
    /\ teams # selected_teams
    /\ selected_teams' = teams
    /\ ret' = <<>> /\ calls' = <<>> /\ shown' = <<>>
    /\ outcome' = [Idle EXCEPT !.op = "select_teams"]
    /\ UNCHANGED <<now, today, cache, made, prev, pending, selected_date,
                   refresh_counter, last_refresh, status_arg, status_out,
                   view, unit_arg, unit_out>>

\* navigate_date moving to new_date whatever the window
navigate_date_unbounded(selected, day, direction) ==
    [selected_date |-> selected + direction, ret |-> TRUE]

\* navigate_date(direction) with st.session_state.selected_date = selected
\* on the day `day`: the selected date it leaves and the value it returns
navigate_date(selected, day, direction) ==
    LET min_date == day - 7
        max_date == day + 7
        new_date == selected + direction
    IN IF min_date <= new_date /\ new_date <= max_date
       THEN [selected_date |-> new_date, ret |-> TRUE]
       ELSE [selected_date |-> selected, ret |-> FALSE]

\* an arrow of the navigation bar calls navigate_date; outcome.date is the
\* date the arrow points to
NavigateDate(direction) ==
    /\ selected_date' = navigate_date(selected_date, today, direction).selected_date
    /\ ret' = navigate_date(selected_date, today, direction).ret
    /\ calls' = <<>> /\ shown' = <<>>
    /\ outcome' = [Idle EXCEPT !.op = "navigate_date",
                               !.date = selected_date + direction]
    /\ UNCHANGED <<now, today, cache, made, prev, pending, selected_teams,
                   refresh_counter, last_refresh, status_arg, status_out,
                   view, unit_arg, unit_out>>

NextView ==
    \/ GetGamesWithFilters
    \/ \E teams \in TeamChoices : SelectTeams(teams)
    \/ \E direction \in {-1, 1} : NavigateDate(direction) /\ selected_date' \in Dates
    \/ TriggerRefresh

SpecView == Init /\ [][NextView]_vars

----------------------------------------------------------------------------

(* SpecNav: the date navigation and the sidebar of the page, on one day *)

\* reset_to_today
ResetToToday ==
    /\ selected_date' = today
    /\ selected_teams' = <<>>
    /\ ret' = <<>> /\ calls' = <<>> /\ shown' = <<>>
    /\ outcome' = [Idle EXCEPT !.op = "reset_to_today"]
    /\ UNCHANGED <<now, today, cache, made, prev, pending, refresh_counter,
                   last_refresh, status_arg, status_out, view, unit_arg, unit_out>>

NextNav ==
    \/ \E direction \in {-1, 1} : NavigateDate(direction)
    \/ \E teams \in TeamChoices : SelectTeams(teams)
    \/ ResetToToday
    \/ TriggerRefresh

SpecNav == Init /\ [][NextNav]_vars

----------------------------------------------------------------------------
(* Claims about fetch_games_for_date and its cache *)

\* the last operation was a call of fetch_games_for_date that ran its body
ComputedCall == outcome.op = "fetch" /\ ~outcome.hit

\* the upstream endpoints each assembler may query
Endpoints(by) ==
    CASE by = "live" -> {"live.scoreboard", "live.boxscore"}
      [] by = "historical" -> {"stats.leaguegamefinder", "stats.boxscoretraditionalv2"}
      [] by = "future" -> {"stats.scoreboardv2"}
      [] OTHER -> {}

\* the query each assembler starts with
Primary(by) ==
    CASE by = "live" -> "live.scoreboard"
      [] by = "historical" -> "stats.leaguegamefinder"
      [] by = "future" -> "stats.scoreboardv2"
      [] OTHER -> ""

\* C1: a call of fetch_games_for_date(d) that misses the cache runs exactly
\* one assembler, chosen by comparing d with today: Live iff d = today,
\* Historical iff d < today, Future iff d > today; every upstream query of the
\* call goes to an endpoint of that assembler.
C1_StrategyByDate ==
    ComputedCall =>
        /\ outcome.by \in {"live", "historical", "future"}
        /\ (outcome.by = "live") <=> (outcome.date = today)
        /\ (outcome.by = "historical") <=> (outcome.date < today)
        /\ (outcome.by = "future") <=> (outcome.date > today)
        /\ \A i \in DOMAIN calls : calls[i].endpoint \in Endpoints(outcome.by)

C1_Witness ==
    /\ ComputedCall
    /\ outcome.date < today
    /\ outcome.by = "historical"
    /\ Len(calls) = 2
    /\ calls[2].endpoint = "stats.boxscoretraditionalv2"

\* C2 (as amended): a call of fetch_games_for_date(d) made less than 60
\* seconds after the call that computed d's cache entry, with no
\* trigger_refresh between them, returns the list that call returned and
\* issues no upstream query.
C2_ServedWithinTtl ==
    [][\A d \in Dates :
          (/\ outcome'.op = "fetch" /\ outcome'.date = d
           /\ made[d].called /\ now - made[d].at < 60)
          => (ret' = made[d].value /\ calls' = <<>>)]_vars

C2_Witness ==
    /\ outcome.op = "fetch" /\ outcome.hit
    /\ outcome.age = TickSeconds
    /\ made[outcome.date].called
    /\ ret = made[outcome.date].value
    /\ ret # <<>>
    /\ calls = <<>>

\* C2 (as claimed): two calls of fetch_games_for_date(d) less than 60 seconds
\* apart with no trigger_refresh between them return equal lists, and the
\* second issues no upstream query.
C2_AsClaimed ==
    [][\A d \in Dates :
          (/\ outcome'.op = "fetch" /\ outcome'.date = d
           /\ prev[d].called /\ now - prev[d].at < 60)
          => (ret' = prev[d].value /\ calls' = <<>>)]_vars

\* C3: the first call of fetch_games_for_date(d) after trigger_refresh runs
\* the function body and queries upstream, also when the refresh found an
\* entry for d less than 60 seconds old.
C3_RefreshForcesFetch ==
    (outcome.op = "fetch" /\ outcome.refreshed # "no") =>
        /\ ~outcome.hit
        /\ calls # <<>>
        /\ calls[1].endpoint = Primary(outcome.by)

C3_Witness ==
    /\ ComputedCall
    /\ outcome.refreshed = "fresh"
    /\ refresh_counter > 0
    /\ now - last_refresh < 60
    /\ calls # <<>>

\* C4: a call of fetch_games_for_date(d) made more than 60 seconds after d's
\* cache entry was created is not served from the entry: it runs the
\* assembler selected for d, which queries upstream.
C4_EntryExpires ==
    (outcome.op = "fetch" /\ outcome.age > 60) =>
        /\ ~outcome.hit
        /\ outcome.by \in {"live", "historical", "future"}
        /\ calls # <<>>
        /\ calls[1].endpoint = Primary(outcome.by)

C4_Witness ==
    /\ ComputedCall
    /\ outcome.age > 60
    /\ outcome.refreshed = "no"
    /\ calls # <<>>

\* C5: in each of the three modes, when the primary upstream query or the
\* parsing of its response raises, the call returns the empty list and no
\* exception leaves fetch_games_for_date.
C5_FailureGivesEmptyList ==
    (ComputedCall /\ (outcome.caught # "" \/ outcome.raised # "")) =>
        /\ ret = <<>>
        /\ outcome.raised = ""

C5_Witness ==
    /\ ComputedCall
    /\ outcome.by = "future"
    /\ outcome.caught = "ConnectionError"
    /\ calls = <<Query("stats.scoreboardv2", S(DateMDY(outcome.date)))>>
    /\ ret = <<>>

\* C6 (as amended): a failed upstream fetch returns the empty list in every
\* mode; in Future mode nothing else is shown, so the failure looks like an
\* empty slate, while in Live and Historical mode one st.error message
\* carrying the exception is shown to the user as well.
C6_FailureShownUnlessFuture ==
    (ComputedCall /\ outcome.caught # "") =>
        /\ ret = <<>>
        /\ outcome.by = "future" => shown = <<>>
        /\ outcome.by = "live" => shown = <<ERR_LIVE \o <<outcome.caught>>>>
        /\ outcome.by = "historical" => shown = <<ERR_HISTORICAL \o <<outcome.caught>>>>

C6_Witness ==
    /\ ComputedCall
    /\ outcome.by = "live"
    /\ outcome.caught = "TypeError"
    /\ ret = <<>>
    /\ shown = <<ERR_LIVE \o <<"TypeError">>>>

\* C6 (as claimed): the only thing a user observes of a failed upstream fetch
\* is the empty list; no error message is shown in any mode.
C6_AsClaimed ==
    (ComputedCall /\ outcome.caught # "") => (ret = <<>> /\ shown = <<>>)

\* C7: every game in a list returned by fetch_games_for_date that has
\* is_scheduled true has home score 0, away score 0 and stats None on both
\* sides.
C7_ScheduledHasNoStats ==
    \A i \in DOMAIN ret :
        ret[i].is_scheduled =>
            /\ ret[i].home_team.score = I(0)
            /\ ret[i].away_team.score = I(0)
            /\ ret[i].home_team.stats = None
            /\ ret[i].away_team.stats = None

----------------------------------------------------------------------------
(* Claims about parse_game_status *)

Returned(x) == status_out.called /\ status_out.exc = "" /\ status_out.val = x

InProgressCase ==
    /\ status_out.called
    /\ Get(status_arg, "gameStatus", I(1)) = I(2)
    /\ Get(status_arg, "period", I(0)).t = "int"
    /\ Get(status_arg, "period", I(0)).v >= 1
    /\ Get(status_arg, "gameClock", S(<<>>)).t = "str"
    /\ Get(status_arg, "gameClock", S(<<>>)).v # <<>>

\* C8: whenever the status code is 3, parse_game_status returns exactly the
\* string "Final", whatever the status text, period, clock and scheduled time.
C8_FinalIsAlwaysFinal ==
    (status_out.called /\ Get(status_arg, "gameStatus", I(1)) = I(3))
        => Returned(S(STR_FINAL))

C8_Witness ==
    /\ Returned(S(STR_FINAL))
    /\ Get(status_arg, "gameStatus", I(1)) = I(3)
    /\ Get(status_arg, "gameStatusText", S(<<>>)) = S(<<"H", "a", "l", "f", "t", "i", "m", "e">>)
    /\ Get(status_arg, "period", I(0)) = I(2)
    /\ Get(status_arg, "gameClock", S(<<>>)) = CLOCK_SHORT

\* the period token the in-progress status string is expected to start with
ExpectedPeriodToken(n) ==
    CASE n = 1 -> <<"Q", "1">>
      [] n = 2 -> <<"Q", "2">>
      [] n = 3 -> <<"Q", "3">>
      [] n = 4 -> <<"Q", "4">>
      [] n = 5 -> <<"O", "T">>
      [] OTHER -> <<"O", "T">> \o IntToStr(n - 4)

\* C9: for an in-progress game with a period n >= 1 and a non-empty clock the
\* status string starts with the token Q{n} for n in 1..4, OT for n = 5 and
\* OT{n-4} for n >= 6, followed by a space.
C9_PeriodToken ==
    InProgressCase =>
        /\ status_out.exc = ""
        /\ status_out.val.t = "str"
        /\ StartsWith(status_out.val.v,
                      ExpectedPeriodToken(status_arg["period"].v) \o <<" ">>)

C9_Witness ==
    /\ InProgressCase
    /\ status_arg["period"] = I(6)
    /\ StartsWith(status_out.val.v, <<"O", "T", "2", " ">>)

\* the part of an in-progress status string after the period token
ClockPart(s) ==
    LET i == CHOOSE j \in 1..Len(s) : s[j] = " " /\ \A k \in 1..(j - 1) : s[k] # " "
    IN SubSeq(s, i + 1, Len(s))

FractionCase == InProgressCase /\ status_arg["gameClock"] = CLOCK_FRACTION

\* C10 (as amended): for an in-progress game the clock "PT11M30.00S" renders
\* as "11:30.00": the duration prefix and the S are dropped, M becomes a
\* colon, and the fractional seconds are kept.
C10_FractionKept ==
    FractionCase =>
        /\ status_out.exc = ""
        /\ status_out.val.t = "str"
        /\ ClockPart(status_out.val.v) = <<"1", "1", ":", "3", "0", ".", "0", "0">>

C10_Witness ==
    /\ FractionCase
    /\ status_arg["period"] = I(1)
    /\ status_out.val = S(<<"Q", "1", " ", "1", "1", ":", "3", "0", ".", "0", "0">>)

\* C10 (as claimed): the clock "PT11M30.00S" renders as "11:30", minutes,
\* colon and whole seconds with nothing else.
C10_AsClaimed ==
    FractionCase =>
        /\ status_out.exc = ""
        /\ status_out.val.t = "str"
        /\ ClockPart(status_out.val.v) = <<"1", "1", ":", "3", "0">>

\* C11: for an in-progress game the seconds are not zero-padded and a
\* rendering that would begin with a colon gets a "0" in front: the clock
\* "PT0M5S" renders as "0:5", and the clock "PTM5S", which has no minutes
\* digits, renders as "0:5" as well.
C11_ShortClocks ==
    (InProgressCase /\ status_arg["gameClock"] \in {CLOCK_SHORT, CLOCK_NO_MINUTES}) =>
        /\ status_out.exc = ""
        /\ status_out.val.t = "str"
        /\ ClockPart(status_out.val.v) = <<"0", ":", "5">>

C11_Witness ==
    /\ InProgressCase
    /\ status_arg["gameClock"] = CLOCK_NO_MINUTES
    /\ status_arg["period"] = I(4)
    /\ status_out.val = S(<<"Q", "4", " ", "0", ":", "5">>)

\* C12: parse_game_status never raises: for every combination of status
\* code, status text, period, clock and scheduled time it returns a string.
C12_NeverRaises ==
    status_out.called => (status_out.exc = "" /\ status_out.val.t = "str")

----------------------------------------------------------------------------
(* Claims about get_team_info *)

TeamInfoCalled == unit_arg.fn = "get_team_info" /\ unit_out.n = 1

\* C13: get_team_info is total on codes: a code of the team table returns
\* that team's code, name and logo, and any other code c returns the
\* identity with abbrev c, name c and the empty logo.
C13_TeamInfoTotal ==
    TeamInfoCalled =>
        /\ unit_out.val.exc = ""
        /\ LET c == unit_arg.x
           IN IF c.t = "str" /\ c.v \in DOMAIN NBA_TEAMS
              THEN unit_out.val.val = [abbrev |-> c,
                                       name |-> S(NBA_TEAMS[c.v].name),
                                       logo |-> S(NBA_TEAMS[c.v].logo)]
              ELSE unit_out.val.val = [abbrev |-> c, name |-> c, logo |-> S(<<>>)]

C13_Witness ==
    /\ TeamInfoCalled
    /\ unit_arg.x = S(<<"Z", "Z", "Z">>)
    /\ unit_out.val = Ok([abbrev |-> S(<<"Z", "Z", "Z">>), name |-> S(<<"Z", "Z", "Z">>), logo |-> S(<<>>)])

\* C14: get_team_info("GS") returns the identity get_team_info("GSW")
\* returns: abbrev "GSW" with the name and the logo of that team.
C14_AliasGS ==
    (TeamInfoCalled /\ unit_arg.x = S(<<"G", "S">>)) =>
        unit_out.val = Ok([abbrev |-> S(<<"G", "S", "W">>),
                           name |-> S(NBA_TEAMS[<<"G", "S", "W">>].name),
                           logo |-> S(NBA_TEAMS[<<"G", "S", "W">>].logo)])

----------------------------------------------------------------------------
(* Claims about extract_team_stats_from_live *)

StatsCalled == unit_arg.fn = "extract_team_stats_from_live" /\ unit_out.n = 1

\* the team block carries a statistics payload: a dict with at least one key
PayloadPresent(team_data) ==
    /\ team_data.t = "dict"
    /\ "statistics" \in DOMAIN team_data.v
    /\ team_data.v["statistics"].t = "dict"
    /\ DOMAIN team_data.v["statistics"].v # {}

\* the upstream key each field of the stats record is read from
StatSource ==
    [fg_made |-> "fieldGoalsMade", fg_attempted |-> "fieldGoalsAttempted",
     fg3_made |-> "threePointersMade", fg3_attempted |-> "threePointersAttempted",
     ft_made |-> "freeThrowsMade", ft_attempted |-> "freeThrowsAttempted",
     ast |-> "assists", reb |-> "reboundsTotal", to |-> "turnovers"]

\* C15: extract_team_stats_from_live returns None when the team block has no
\* statistics payload or is missing or malformed, and otherwise a record
\* whose nine fields carry the payload's values exactly, a zero staying the
\* int 0 and only a key the payload lacks becoming None.
C15_AbsentIsNotZero ==
    StatsCalled =>
        IF PayloadPresent(unit_arg.x)
        THEN /\ unit_out.val.t = "dict"
             /\ DOMAIN unit_out.val.v = DOMAIN StatSource
             /\ \A k \in DOMAIN StatSource :
                   LET payload == unit_arg.x.v["statistics"].v
                   IN unit_out.val.v[k] = IF StatSource[k] \in DOMAIN payload
                                          THEN payload[StatSource[k]] ELSE None
        ELSE unit_out.val = None

C15_Witness ==
    /\ StatsCalled
    /\ unit_arg.x = TeamBlock(LAL, I(7), STATS_ZERO)
    /\ unit_out.val.v["fg_made"] = I(0)
    /\ unit_out.val.v["fg_attempted"] = I(0)
    /\ unit_out.val.v["ast"] = None

----------------------------------------------------------------------------
(* Claims about filter_games_by_teams *)

FilterCalled == unit_arg.fn = "filter_games_by_teams" /\ unit_out.n >= 1

\* the positions of the games one of whose team names is in teams
Matching(games, teams) ==
    {n \in 1..Len(games) :
        \/ \E k \in 1..Len(teams) : teams[k] = games[n].home_team.name
        \/ \E k \in 1..Len(teams) : teams[k] = games[n].away_team.name}

\* C16: filter_games_by_teams(games, T) returns games itself when T is
\* empty, and otherwise exactly the games whose home or away team name is in
\* T, each as often as it occurs and in the original order.
C16_FilterIsSubsequence ==
    FilterCalled =>
        LET games == unit_arg.x.games
            teams == unit_arg.x.selected_teams
            kept == Matching(games, teams)
        IN IF teams = <<>> THEN unit_out.first = games
           ELSE /\ Len(unit_out.first) = Cardinality(kept)
                /\ \A n \in kept :
                      unit_out.first[Cardinality({j \in kept : j <= n})] = games[n]

C16_Witness ==
    /\ FilterCalled
    /\ Len(unit_arg.x.games) = 3
    /\ unit_arg.x.selected_teams = <<TeamName(<<"M", "I", "A">>)>>
    /\ unit_arg.x.games[1].id = S(<<"B">>)
    /\ unit_arg.x.games[2].id = S(<<"A">>)
    /\ unit_arg.x.games[3].id = S(<<"B">>)
    /\ Len(unit_out.first) = 2
    /\ unit_out.first[1] = unit_arg.x.games[1]
    /\ unit_out.first[2] = unit_arg.x.games[3]

\* C17: filtering twice with the same teams gives what filtering once gives.
C17_FilterIdempotent ==
    (unit_arg.fn = "filter_games_by_teams" /\ unit_out.n = 2) =>
        unit_out.val = unit_out.first

C17_Witness ==
    /\ unit_arg.fn = "filter_games_by_teams" /\ unit_out.n = 2
    /\ unit_arg.x.selected_teams = <<TeamName(<<"B", "O", "S">>), TeamName(<<"L", "A", "L">>)>>
    /\ Len(unit_arg.x.games) = 3
    /\ Len(unit_out.first) = 2
    /\ unit_out.val = unit_out.first

----------------------------------------------------------------------------
(* Claims about get_games_with_filters *)

ViewReturned == outcome.op = "fetch" /\ outcome.raised = "" /\ view # <<>>

\* C18: get_games_with_filters returns the pair (filtered, total) in which
\* total is the number of games fetch_games_for_date returned for the
\* selected date, counted before the team filter, and filtered holds the
\* games of that list one of whose teams is selected (all of them when no
\* team is selected).
C18_TotalCountsBeforeFilter ==
    ViewReturned =>
        /\ outcome.date = selected_date
        /\ view.total = Len(ret)
        /\ Len(view.filtered) =
              IF selected_teams = <<>> THEN Len(ret)
              ELSE Cardinality(Matching(ret, selected_teams))
        /\ \A n \in 1..Len(view.filtered) : \E k \in 1..Len(ret) : view.filtered[n] = ret[k]

C18_Witness ==
    /\ ViewReturned
    /\ selected_teams = <<TeamName(<<"M", "I", "A">>)>>
    /\ view.total = 2
    /\ Len(view.filtered) = 1

----------------------------------------------------------------------------
(* Claims about fetch_future_games *)

FutureCalled == unit_arg.fn = "fetch_future_games" /\ unit_out.n = 1

\* the LineScore frame leaves the home or the away abbreviation unknown
LineScoreIncomplete == unit_arg.x.lines \in {"absent", "empty", "other", "home"}

\* C19: when the LineScore lookup does not give both abbreviations of a
\* game whose GAMECODE has the standard form "YYYYMMDD/VVVHHH", the record
\* carries the identities of the six characters after the date part: the
\* visitor from the first three, the home team from the last three.
C19_GamecodeFallback ==
    (FutureCalled /\ LineScoreIncomplete /\ unit_arg.x.gamecode = GAMECODE_STANDARD) =>
        /\ Len(unit_out.val.games) = Len(unit_arg.x.texts)
        /\ unit_out.val.games[1].away_team.abbrev = BOS
        /\ unit_out.val.games[1].home_team.abbrev = LAL

\* C25: every record of fetch_future_games has the scores 0, no stats on
\* either side and is_scheduled true; its status is the GAME_STATUS_TEXT of
\* its GameHeader row when that is non-empty and "Scheduled" otherwise; and
\* there is one record per GameHeader row, in row order.
C25_FutureRecordsAreScheduled ==
    (FutureCalled /\ unit_out.val.caught = "") =>
        LET games == unit_out.val.games
            texts == unit_arg.x.texts
        IN /\ Len(games) = Len(texts)
           /\ \A n \in 1..Len(games) :
                 /\ games[n].id = S(<<"F">> \o NatToStr(n))
                 /\ games[n].home_team.score = I(0)
                 /\ games[n].away_team.score = I(0)
                 /\ games[n].home_team.stats = None
                 /\ games[n].away_team.stats = None
                 /\ games[n].is_scheduled = TRUE
                 /\ games[n].status = IF texts[n] \in {S(<<>>), None}
                                      THEN S(<<"S", "c", "h", "e", "d", "u", "l", "e", "d">>) ELSE texts[n]

C25_Witness ==
    /\ FutureCalled
    /\ unit_arg.x.texts = <<S(<<>>), S(<<"P", "P", "D">>)>>
    /\ Len(unit_out.val.games) = 2
    /\ unit_out.val.games[1].status = S(<<"S", "c", "h", "e", "d", "u", "l", "e", "d">>)
    /\ unit_out.val.games[2].status = S(<<"P", "P", "D">>)

----------------------------------------------------------------------------
(* Claims about the box-score query of fetch_live_games *)

LiveCalled == unit_arg.fn = "fetch_live_games" /\ unit_out.n = 1

\* the entry at position n calls for the box-score query
Asks(n) ==
    LET spec == unit_arg.x.games[n]
    IN /\ spec.home = Absent \/ spec.away = Absent
       /\ spec.code >= 2
       /\ spec.id = "given"

BoxQuery(n) == [endpoint |-> "live.boxscore", arg |-> S(<<"G">> \o NatToStr(n))]

\* the field goals made of the stats a side ends with, None without stats:
\* statistics is what the scoreboard carries for the side, boxed what the
\* box score carries for it
SideStats(n, statistics, boxed) ==
    IF statistics # Absent THEN statistics.v.fieldGoalsMade
    ELSE IF Asks(n) /\ unit_arg.x.box # DOWN /\ boxed # Absent
         THEN boxed.v.fieldGoalsMade
    ELSE None

FieldGoalsMade(stats) == IF stats = None THEN None ELSE stats.v.fg_made

\* C20: fetch_live_games asks the box-score endpoint about a game exactly
\* when a side has no stats in the scoreboard, the status code is 2 or more
\* and the game has an id: once per such game, never for a status-1 game.
\* The answer fills only the sides without stats, stats of the scoreboard
\* stay as they are, and when the query fails the stats stay absent and the
\* record is still produced.
C20_BoxQueryOnlyWhenNeeded ==
    LiveCalled =>
        LET specs == unit_arg.x.games
            out == unit_out.val
            box == unit_arg.x.box
            queries == [k \in 1..(Len(out.calls) - 1) |-> out.calls[k + 1]]
        IN /\ out.exc = "" /\ out.caught = ""
           /\ Len(out.games) = Len(specs)
           /\ out.calls[1] = [endpoint |-> "live.scoreboard", arg |-> None]
           /\ Len(queries) = Cardinality({n \in 1..Len(specs) : Asks(n)})
           /\ \A n \in 1..Len(specs) :
                 /\ Cardinality({k \in 1..Len(queries) : queries[k] = BoxQuery(n)})
                       = IF Asks(n) THEN 1 ELSE 0
                 /\ FieldGoalsMade(out.games[n].home_team.stats) =
                       SideStats(n, specs[n].home,
                                 IF box = DOWN THEN Absent
                                 ELSE Get(box.val.v["game"].v["homeTeam"].v, "statistics", Absent))
                 /\ FieldGoalsMade(out.games[n].away_team.stats) =
                       SideStats(n, specs[n].away,
                                 IF box = DOWN THEN Absent
                                 ELSE Get(box.val.v["game"].v["awayTeam"].v, "statistics", Absent))

C20_Witness ==
    /\ LiveCalled
    /\ Len(unit_arg.x.games) = 1
    /\ unit_arg.x.games[1] = [code |-> 2, home |-> STATS_FULL, away |-> Absent, id |-> "given"]
    /\ unit_arg.x.box # DOWN
    /\ Len(unit_out.val.calls) = 2
    /\ FieldGoalsMade(unit_out.val.games[1].home_team.stats) = I(40)
    /\ FieldGoalsMade(unit_out.val.games[1].away_team.stats) = I(41)

----------------------------------------------------------------------------
(* Claims about fetch_historical_games *)

HistoricalCalled == unit_arg.fn = "fetch_historical_games" /\ unit_out.n = 1

\* the positions of the rows of the game id
RowsOf(game) == {k \in 1..Len(unit_arg.x.rows) : unit_arg.x.rows[k].game = game}

\* the team abbreviation and the points of the row at position k
RowTeam(k) ==
    [abbrev |-> <<LAL, BOS, MIA, S(<<"N", "Y", "K">>), S(<<"D", "E", "N">>), S(<<"P", "H", "X">>)>>[k],
     score |-> I(100 + k)]

SideOf(team) == [abbrev |-> team.abbrev, score |-> team.score]

\* C21: of the two rows of a game id, the one whose matchup contains "@"
\* is the away side and the other one the home side, in either row order;
\* when neither or both contain "@", the first row is home and the second
\* away.
C21_PairingByMatchup ==
    HistoricalCalled =>
        \A game \in {<<"H", "1">>, <<"H", "2">>} : \A p \in RowsOf(game) : \A q \in RowsOf(game) :
            (RowsOf(game) = {p, q} /\ p < q) =>
                LET rows == unit_arg.x.rows
                    home == IF rows[p].away /\ ~rows[q].away THEN q ELSE p
                    away == IF rows[p].away /\ ~rows[q].away THEN p ELSE q
                IN \E n \in 1..Len(unit_out.val.games) :
                      /\ unit_out.val.games[n].id = S(game)
                      /\ SideOf(unit_out.val.games[n].home_team) = RowTeam(home)
                      /\ SideOf(unit_out.val.games[n].away_team) = RowTeam(away)

C21_Witness ==
    /\ HistoricalCalled
    /\ Len(unit_arg.x.rows) = 2
    /\ unit_arg.x.rows[1] = [game |-> <<"H", "1">>, away |-> TRUE]
    /\ unit_arg.x.rows[2] = [game |-> <<"H", "1">>, away |-> FALSE]
    /\ Len(unit_out.val.games) = 1
    /\ unit_out.val.games[1].home_team.abbrev = BOS
    /\ unit_out.val.games[1].away_team.abbrev = LAL


\* the position of the first row of the game id
FirstRow(game) == CHOOSE k \in RowsOf(game) : \A j \in RowsOf(game) : k <= j

\* the game ids with at least two rows
Paired == {game \in {<<"H", "1">>, <<"H", "2">>} : Cardinality(RowsOf(game)) >= 2}

\* C22: fetch_historical_games returns one record for each game id that has
\* at least two rows and none for a game id with fewer, in the order in
\* which the game ids first appear in the frame; every record has status
\* "Final" and is_scheduled false.
C22_OneRecordPerPairedGame ==
    HistoricalCalled =>
        LET games == unit_out.val.games
        IN /\ unit_out.val.caught = ""
           /\ Len(games) = Cardinality(Paired)
           /\ \A game \in Paired : \E n \in 1..Len(games) : games[n].id = S(game)
           /\ \A n \in 1..Len(games) :
                 /\ games[n].id.v \in Paired
                 /\ games[n].status = S(<<"F", "i", "n", "a", "l">>)
                 /\ games[n].is_scheduled = FALSE
                 /\ \A m \in (n + 1)..Len(games) :
                       FirstRow(games[n].id.v) < FirstRow(games[m].id.v)

C22_Witness ==
    /\ HistoricalCalled
    /\ Len(unit_arg.x.rows) = 4
    /\ [k \in 1..4 |-> unit_arg.x.rows[k].game] = <<<<"H", "2">>, <<"H", "1">>, <<"H", "2">>, <<"H", "1">>>>
    /\ Len(unit_out.val.games) = 2
    /\ unit_out.val.games[1].id = S(<<"H", "2">>)
    /\ unit_out.val.games[2].id = S(<<"H", "1">>)


\* the position in the frame of the row a side of a record was built from
RowOfSide(team) == team.score.v - 100

\* the field goals made the box score of the game carries for the team of
\* the row at position k, None when the query failed or has no such row
BoxedFor(game_id, k) ==
    LET reply == unit_arg.x.oracle[game_id]
    IN IF reply.exc # "" THEN None
       ELSE IF \E i \in 1..Len(reply.val.v[2].v) : reply.val.v[2].v[i].TEAM_ID = I(10 * k)
            THEN I(40 + k)
       ELSE None

\* C23: fetch_historical_games issues one box-score query per record it
\* produces; when that query fails or its answer lacks the row of a team,
\* the record is produced all the same with its identities and scores and
\* with stats None for the sides concerned, and the other records keep the
\* stats of their own box score.
C23_BoxFailureDegradesOneGame ==
    HistoricalCalled =>
        LET games == unit_out.val.games
            sides == {"home_team", "away_team"}
        IN /\ unit_out.val.calls =
                 <<[endpoint |-> "stats.leaguegamefinder", arg |-> S(<<"0", "1", "/", "1", "4", "/", "2", "0", "2", "4">>)]>>
                 \o [n \in 1..Len(games) |->
                        [endpoint |-> "stats.boxscoretraditionalv2", arg |-> games[n].id]]
           /\ Len(games) = Cardinality(Paired)
           /\ \A n \in 1..Len(games) : \A side \in sides :
                 LET team == games[n][side]
                     k == RowOfSide(team)
                 IN /\ k \in RowsOf(games[n].id.v)
                    /\ team.abbrev = RowTeam(k).abbrev
                    /\ team.name # S(<<>>)
                    /\ (IF team.stats = None THEN None ELSE team.stats.v.fg_made)
                          = BoxedFor(games[n].id, k)

C23_Witness ==
    /\ HistoricalCalled
    /\ Len(unit_arg.x.rows) = 4
    /\ [k \in 1..4 |-> unit_arg.x.rows[k].game] = <<<<"H", "1">>, <<"H", "1">>, <<"H", "2">>, <<"H", "2">>>>
    /\ unit_arg.x.oracle[S(<<"H", "1">>)] = DOWN
    /\ unit_arg.x.oracle[S(<<"H", "2">>)] # DOWN
    /\ Len(unit_out.val.games) = 2
    /\ Len(unit_out.val.calls) = 3
    /\ unit_out.val.games[1].home_team.stats = None
    /\ unit_out.val.games[1].away_team.stats = None
    /\ unit_out.val.games[2].home_team.stats # None
    /\ unit_out.val.games[2].away_team.stats # None

----------------------------------------------------------------------------
(* Claims about the fallbacks of parse_game_status *)

\* the scheduled time is missing, or it is not an ISO timestamp
NoScheduledTime ==
    Get(status_arg, "gameTimeUTC", S(<<>>)) \in {S(<<>>), S(<<"T", "B", "D">>), I(7)}

\* the period or the clock is missing
NoPeriodOrClock ==
    \/ Get(status_arg, "period", I(0)) \in {I(0), None}
    \/ Get(status_arg, "gameClock", S(<<>>)) = S(<<>>)

\* the literal of the branch the status code selects, <<>> where the
\* branch has a formatted value
FallbackLiteral ==
    LET code == Get(status_arg, "gameStatus", Absent)
    IN IF code = I(1) THEN (IF NoScheduledTime THEN <<"S", "c", "h", "e", "d", "u", "l", "e", "d">> ELSE <<>>)
       ELSE IF code = I(2) THEN (IF NoPeriodOrClock THEN <<"I", "n", " ", "P", "r", "o", "g", "r", "e", "s", "s">> ELSE <<>>)
       ELSE IF code \in {I(3), Absent} THEN <<>>
       ELSE <<"U", "n", "k", "n", "o", "w", "n">>

\* C24: where parse_game_status has no formatted value to return, it
\* returns the upstream status text when that text is non-empty and
\* otherwise the literal of the branch: "Scheduled" for status code 1
\* without a parseable scheduled time, "In Progress" for status code 2
\* without period or clock, "Unknown" for a status code other than 1, 2, 3.
C24_FallbackTextThenLiteral ==
    (status_out.called /\ FallbackLiteral # <<>>) =>
        LET text == Get(status_arg, "gameStatusText", S(<<>>))
        IN Returned(IF text \in {S(<<>>), None} THEN S(FallbackLiteral) ELSE text)

C24_Witness ==
    /\ status_out.called
    /\ Get(status_arg, "gameStatus", Absent) = I(2)
    /\ "gameStatusText" \notin DOMAIN status_arg
    /\ Get(status_arg, "period", Absent) = I(3)
    /\ "gameClock" \notin DOMAIN status_arg
    /\ status_out.val = S(<<"I", "n", " ", "P", "r", "o", "g", "r", "e", "s", "s">>)

----------------------------------------------------------------------------
(* Claims about the cache across midnight and after a failure *)

\* the assembler that comparing the date with the current day selects
StrategyFor(date, day) ==
    IF date = day THEN "live" ELSE IF date < day THEN "historical" ELSE "future"

\* the assembler that built the list the last call returned
AssembledBy == IF outcome.hit THEN made[outcome.date].by ELSE outcome.by

\* C26: every list fetch_games_for_date(d) returns, a list served from the
\* cache included, was assembled by the assembler that comparing d with the
\* current day selects at the time of the call that returns it.
C26_ReturnedByCurrentStrategy ==
    (outcome.op = "fetch" /\ outcome.raised = "") =>
        AssembledBy = StrategyFor(outcome.date, today)


\* C27: the empty list a failed upstream fetch for d produced is cached
\* like any result: a call of fetch_games_for_date(d) less than 60 seconds
\* after it, with no trigger_refresh between, returns the empty list from
\* the cache without an upstream query, whatever upstream would answer now;
\* once 60 seconds have passed or trigger_refresh has run, the next call
\* queries upstream again.
C27_FailureIsCached ==
    [][\A d \in Dates :
          (outcome'.op = "fetch" /\ outcome'.date = d) =>
              /\ (made[d].called /\ made[d].caught # "" /\ now - made[d].at < 60)
                    => (outcome'.hit /\ ret' = <<>> /\ calls' = <<>>)
              /\ (made[d].called /\ made[d].caught # "" /\ now - made[d].at >= 60)
                    => (~outcome'.hit /\ calls' # <<>>)
              /\ (pending[d] # "no") => (~outcome'.hit /\ calls' # <<>>)]_vars

C27_Witness ==
    /\ outcome.op = "fetch" /\ outcome.hit
    /\ made[outcome.date].caught = "ConnectionError"
    /\ outcome.age = TickSeconds
    /\ ret = <<>>
    /\ calls = <<>>

----------------------------------------------------------------------------
(* Claims about navigate_date *)

InWindow(date) == today - 7 <= date /\ date <= today + 7

\* C28: from selected_date = today on, whatever navigate_date(-1),
\* navigate_date(+1), reset_to_today and trigger_refresh do in any order on
\* one day, selected_date stays within seven days of today; navigate_date
\* returns True and moves selected_date by exactly one day when the target
\* is within the window, and returns False and leaves it where it is when
\* the target is outside.
C28_NavigationStaysInWindow ==
    [][/\ InWindow(selected_date')
       /\ (outcome'.op = "navigate_date") =>
             /\ outcome'.date - selected_date \in {-1, 1}
             /\ IF InWindow(outcome'.date)
                THEN ret' = TRUE /\ selected_date' = outcome'.date
                ELSE ret' = FALSE /\ selected_date' = selected_date]_vars

C28_Witness ==
    /\ outcome.op = "navigate_date"
    /\ outcome.date = today + 8
    /\ selected_date = today + 7
    /\ ret = FALSE
    /\ refresh_counter > 0

====
